---- MODULE Spec2Model ----
(***************************************************************************)
(* A model of logmon (github.com/jjrumi/accesslogmonitor): a pipeline of   *)
(* goroutines that tails an access log, aggregates the entries of every    *)
(* refresh interval into traffic stats, detects threshold alerts over a    *)
(* sliding window and shows both on a terminal UI.                         *)
(*                                                                         *)
(*   tail -> Producer -entries-> TrafficSupervisor -stats-> broadcast      *)
(*        broadcast -output1-> AlertSupervisor -alerts-> UI                *)
(*        broadcast -output2-> UI                                          *)
(*                                                                         *)
(* All channels of Monitor.Run are unbuffered: a send and the matching     *)
(* receive are one joint step of the two goroutines.  A goroutine blocked  *)
(* in a plain send (outside a select) has no other step.                   *)
(*                                                                         *)
(* Numbers: a rate is float64(reqsInWindow) / float64(window).  It is kept  *)
(* as the pair <<reqsInWindow, window>> and compared with the integer      *)
(* threshold by cross multiplication, which is what the float comparison   *)
(* gives for every count below 2^53.  time.Now() stamps are left out.      *)
(***************************************************************************)
EXTENDS Integers, Sequences, FiniteSets, TLC

VARIABLES
    cfg,            \* AlertSupervisorOpts: threshold, refresh, window
    scenario,       \* which driver feeds the model
    cancelled,      \* ctx.Done() is closed
    \* environment
    tailOpen,       \* p.tail.Lines is open
    linesRead,      \* lines the Producer has taken from the tail
    linesLog,       \* history: those lines (kept when the Producer runs on its own)
    ticks,          \* ticks the TrafficSupervisor has taken from ticker.C
    \* Producer (logEntryProducer.Run)
    prodPc, prodEntry, entriesClosed, entriesSent,
    \* TrafficSupervisor (trafficSupervisor.Run and its produceStats goroutines)
    aggPc, entriesBuffer, tasks, statsClosed, received, statsEmitted,
    \* broadcastTrafficStats
    fanPc, fanMsg, toAlerts, toUI,
    \* AlertSupervisor (alertSupervisor.Run)
    alertPc, statsBuffer, reqsInWindow, ongoing, alertInHand, alertsClosed,
    statsInClosed,  \* the stats input of the AlertSupervisor is closed
    fed,            \* history: TotalReqs of the snapshots processed
    ongoingHist,    \* history: ongoing after each processed snapshot
    alertsLog,      \* history: alerts built by trackAlerts, with their step
    alertsSent,     \* history: alerts whose send on the alerts channel completed
    \* UI (UI.Run)
    uiPc, uiExit, shownStats, shownAlert,
    \* Monitor.Run
    monPc, tailHeld, termHeld,
    runErr,         \* the error Monitor.Run returned
    exitCode,       \* the code main passed to os.Exit, -1 while the process runs
    \* table-driven tests of the pure functions
    tcIn,           \* the input of the test case
    tcOut           \* what the function under test returned

envVars   == <<tailOpen, linesRead, linesLog, ticks>>
prodVars  == <<prodPc, prodEntry, entriesClosed, entriesSent>>
aggVars   == <<aggPc, entriesBuffer, tasks, statsClosed, received, statsEmitted>>
fanVars   == <<fanPc, fanMsg, toAlerts, toUI>>
alertVars == <<alertPc, statsBuffer, reqsInWindow, ongoing, alertInHand, alertsClosed,
               fed, ongoingHist, alertsLog, alertsSent>>
uiVars    == <<uiPc, uiExit, shownStats, shownAlert>>
monVars   == <<monPc, tailHeld, termHeld, runErr, exitCode>>
testVars  == <<tcIn, tcOut>>
vars == <<testVars, cfg, scenario, cancelled, envVars, prodVars, aggVars, fanVars,
          alertVars, statsInClosed, uiVars, monVars>>

(***************************************************************************)
(* Bounds of the model.                                                    *)
(***************************************************************************)
MaxSnapshots == 4
MaxReq == 3
MaxThreshold == 1
MaxRefresh == 2
MaxWindow == 2
MaxLines == 2
MaxTicks == 2
MaxZeros == 1
MaxEntries == 2
MaxUIEvents == 2
MaxCode == 600
MaxPathLen == 4
MaxDigits == 2
MaxKeys == 21
MaxSmallKeys == 3
MaxHits == 2

None == [none |-> TRUE]

\* A history that only the runs of a single component keep.
Keep(h, x) == IF scenario = "pipeline" THEN h ELSE Append(h, x)

\* The histories of the pipeline keep their first MaxTicks + MaxZeros entries
\* only, so that a loop of the program is a loop of the model.
Record(h, x) ==
    IF scenario = "pipeline" /\ Len(h) >= MaxTicks + MaxZeros THEN h ELSE Append(h, x)

(***************************************************************************)
(* Data: LogEntry, TrafficStats, ThresholdAlert.                           *)
(* A path is a sequence of one-character strings.  A Go map is a function  *)
(* whose domain is the set of keys present.                                *)
(***************************************************************************)
NewLogEntry(method, path, status, bytes) ==
    [ReqMethod |-> method, ReqPath |-> path, StatusCode |-> status, Bytes |-> bytes]

NewEmptyTrafficStats ==
    [SectionHits |-> <<>>, MethodHits |-> <<>>, StatusClassHits |-> <<>>,
     Bytes |-> 0, TotalReqs |-> 0]

\* TrafficStats{TotalReqs: n} of the AlertSupervisor tests; also, with n = 0, the
\* zero value a receive on a closed channel yields (nil maps hold no key).
StatsOfReqs(n) == [NewEmptyTrafficStats EXCEPT !.TotalReqs = n]

ThresholdAlert(open, reqs, win) == [Open |-> open, Hits |-> <<reqs, win>>]

MapInc_sets(m, k) == [x \in DOMAIN m \cup {k} |-> IF x = k THEN 1 ELSE m[x]]

\* m[k]++ on a Go map
MapInc(m, k) == IF k \in DOMAIN m THEN [m EXCEPT ![k] = @ + 1] ELSE m @@ (k :> 1)

RECURSIVE SumSeq(_)
SumSeq(s) == IF s = <<>> THEN 0 ELSE Head(s) + SumSeq(Tail(s))

RECURSIVE MapSum(_)
MapSum(m) ==
    IF DOMAIN m = {} THEN 0
    ELSE LET k == CHOOSE x \in DOMAIN m : TRUE
         IN  m[k] + MapSum([x \in DOMAIN m \ {k} |-> m[x]])

\* regexp ^/[^/]* on a path that starts with "/": the slash and the run of
\* non-slash characters after it
RECURSIVE SectionRun(_)
SectionRun(rest) ==
    IF rest = <<>> \/ Head(rest) = "/" THEN <<>>
    ELSE <<Head(rest)>> \o SectionRun(Tail(rest))

parseSection_whole(path) ==
    IF Len(path) < 1 \/ path[1] # "/" THEN <<"/">> \o path ELSE path

parseSection(path) ==
    LET p == IF Len(path) < 1 \/ path[1] # "/" THEN <<"/">> \o path ELSE path
    IN  <<"/">> \o SectionRun(Tail(p))

parseStatusClass_le(code) ==
    IF code <= 200 THEN "1xx"
    ELSE IF code >= 200 /\ code <= 299 THEN "2xx"
    ELSE IF code >= 300 /\ code <= 399 THEN "3xx"
    ELSE IF code >= 400 /\ code <= 499 THEN "4xx"
    ELSE "5xx"

parseStatusClass(code) ==
    IF code < 200 THEN "1xx"
    ELSE IF code >= 200 /\ code <= 299 THEN "2xx"
    ELSE IF code >= 300 /\ code <= 399 THEN "3xx"
    ELSE IF code >= 400 /\ code <= 499 THEN "4xx"
    ELSE "5xx"

Update(s, entry) ==
    [SectionHits     |-> MapInc(s.SectionHits, parseSection(entry.ReqPath)),
     MethodHits      |-> MapInc(s.MethodHits, entry.ReqMethod),
     StatusClassHits |-> MapInc(s.StatusClassHits, parseStatusClass(entry.StatusCode)),
     Bytes           |-> s.Bytes + entry.Bytes,
     TotalReqs       |-> s.TotalReqs + 1]

(***************************************************************************)
(* AlertSupervisor.                                                        *)
(***************************************************************************)
GoDiv_roundsUp(a, b) == (a + b - 1) \div b

\* Go's integer division a / b for b # 0: the quotient truncated toward zero
GoDiv(a, b) ==
    LET abs(x) == IF x < 0 THEN 0 - x ELSE x
        q == abs(a) \div abs(b)
    IN  IF (a < 0) = (b < 0) THEN q ELSE 0 - q

capacity_plusOne == GoDiv(cfg.window, cfg.refresh) + 1
\* fields of alertSupervisor set by NewAlertsSupervisor (Go integer division)
capacity  == GoDiv(cfg.window, cfg.refresh)
threshold_swapped == cfg.refresh
threshold == cfg.threshold
window    == cfg.window

PushAndEvict_dropsNewest(buf, s, cap) ==
    LET pushed == <<s>> \o buf
    IN  IF Len(pushed) > cap THEN Tail(pushed) ELSE pushed

\* statsBuffer.PushFront(s), then drop the Back when the list outgrew the capacity
PushAndEvict(buf, s, cap) ==
    LET pushed == <<s>> \o buf
    IN  IF Len(pushed) > cap THEN SubSeq(pushed, 1, Len(pushed) - 1) ELSE pushed

WindowSum_noEvict(buf, sum, s, cap) == sum + s.TotalReqs

\* reqsInWindow += s.TotalReqs, then -= oldStat.TotalReqs when one was removed
WindowSum(buf, sum, s, cap) ==
    LET pushed == <<s>> \o buf
    IN  IF Len(pushed) > cap
        THEN sum + s.TotalReqs - pushed[Len(pushed)].TotalReqs
        ELSE sum + s.TotalReqs

RateAbove_ge(reqs, win, thr) == reqs >= thr * win
\* reqsPerSec > float64(a.threshold)
RateAbove(reqs, win, thr) == reqs > thr * win

RateBelow_le(reqs, win, thr) == reqs <= thr * win
\* reqsPerSec < float64(a.threshold)
RateBelow(reqs, win, thr) == reqs < thr * win

NextOngoing_stuck(cur, flip) == cur
\* a.ongoing = false / a.ongoing = true in the branch that builds an alert
NextOngoing(cur, flip) == IF flip THEN ~cur ELSE cur

\* trackAlerts up to the point where it sends (or returns without an alert)
trackAlerts(s) ==
    LET buf  == PushAndEvict(statsBuffer, s, capacity)
        reqs == WindowSum(statsBuffer, reqsInWindow, s, capacity)
        step == Len(fed) + 1
        flip == IF ongoing THEN RateBelow(reqs, window, threshold)
                           ELSE RateAbove(reqs, window, threshold)
        now  == NextOngoing(ongoing, flip)
    IN  /\ statsBuffer' = buf
        /\ reqsInWindow' = reqs
        /\ ongoing' = now
        /\ fed' = Record(fed, s.TotalReqs)
        /\ ongoingHist' = Record(ongoingHist, now)
        /\ IF flip
           THEN /\ alertInHand' = ThresholdAlert(~ongoing, reqs, window)
                /\ alertsLog' = Append(alertsLog,
                                   [Open |-> ~ongoing, Hits |-> <<reqs, window>>,
                                    step |-> step])
                /\ alertPc' = "send"
           ELSE /\ alertInHand' = None
                /\ alertsLog' = alertsLog
                /\ alertPc' = "select"
        /\ UNCHANGED <<alertsClosed, alertsSent>>

AlertSent_twice ==
    /\ alertPc = "send"
    /\ alertPc' = "select"
    /\ alertsSent' = Append(Append(alertsSent, alertInHand), alertInHand)
    /\ alertInHand' = None
    /\ UNCHANGED <<statsBuffer, reqsInWindow, ongoing, alertsClosed, fed, ongoingHist,
                   alertsLog>>

\* the send `alerts <- alert` completes: trackAlerts returns into the select loop
AlertSent ==
    /\ alertPc = "send"
    /\ alertPc' = "select"
    /\ alertsSent' = Append(alertsSent, alertInHand)
    /\ alertInHand' = None
    /\ UNCHANGED <<statsBuffer, reqsInWindow, ongoing, alertsClosed, fed, ongoingHist,
                   alertsLog>>

AlertLeave_noClose ==
    /\ alertPc = "select"
    /\ alertPc' = "done"
    /\ UNCHANGED <<statsBuffer, reqsInWindow, ongoing, alertInHand, alertsClosed, fed,
                   ongoingHist, alertsLog, alertsSent>>

\* break LOOP, close(alerts)
AlertLeave ==
    /\ alertPc = "select"
    /\ alertPc' = "done"
    /\ alertsClosed' = TRUE
    /\ UNCHANGED <<statsBuffer, reqsInWindow, ongoing, alertInHand, fed, ongoingHist,
                   alertsLog, alertsSent>>

\* case <-ctx.Done()
AlertCancelled ==
    /\ cancelled
    /\ AlertLeave
    /\ UNCHANGED <<testVars, cfg, scenario, cancelled, envVars, prodVars, aggVars, fanVars,
                   statsInClosed, uiVars, monVars>>

\* case s, ok := <-stats with !ok
AlertStatsClosed ==
    /\ statsInClosed
    /\ AlertLeave
    /\ UNCHANGED <<testVars, cfg, scenario, cancelled, envVars, prodVars, aggVars, fanVars,
                   statsInClosed, uiVars, monVars>>

(***************************************************************************)
(* Producer: tail lines, the W3C common log parser, logEntryProducer.Run.  *)
(* A line is kept as what the regexp and time.Parse make of it: whether it *)
(* matches, whether its bracketed date parses, and the captured groups.    *)
(***************************************************************************)
Line(matches, dateOk, method, path, status, bytes) ==
    [matches |-> matches, dateOk |-> dateOk, method |-> method, path |-> path,
     status |-> status, bytes |-> bytes]

\* the lines the tail may deliver in a run of the pipeline: a well-formed one
\* and one the regexp does not match
PipelineLines ==
    { Line(TRUE, TRUE, "GET", <<"/", "a", "/", "b">>, <<"2", "0", "0">>, <<"2">>),
      Line(FALSE, TRUE, "", <<>>, <<"0", "0", "0">>, <<"-">>) }

\* the lines of TestW3CommonLogParser: also one whose date does not parse and
\* one with "-" for the bytes
TestLines ==
    PipelineLines \cup
    { Line(TRUE, FALSE, "PUT", <<"/", "s">>, <<"2", "0", "4">>, <<"1", "4">>),
      Line(TRUE, TRUE, "PUT", <<"/", "w">>, <<"5", "0", "0">>, <<"-">>) }

Lines == IF scenario = "pipeline" THEN PipelineLines ELSE TestLines

DigitVal(c) ==
    CASE c = "0" -> 0 [] c = "1" -> 1 [] c = "2" -> 2 [] c = "3" -> 3 [] c = "4" -> 4
      [] c = "5" -> 5 [] c = "6" -> 6 [] c = "7" -> 7 [] c = "8" -> 8 [] c = "9" -> 9

\* strconv.Atoi on a group of decimal digits
RECURSIVE AtoiDigits(_)
AtoiDigits(d) ==
    IF d = <<>> THEN 0
    ELSE AtoiDigits(SubSeq(d, 1, Len(d) - 1)) * 10 + DigitVal(d[Len(d)])

\* strconv.Atoi on the three digits of the status group
AtoiStatus(d) == AtoiDigits(d)

AtoiBytes_minusOne(b) == IF b = <<"-">> THEN 0 - 1 ELSE AtoiDigits(b)

\* strconv.Atoi on the bytes group; the error on "-" leaves bytes = 0
AtoiBytes(b) == IF b = <<"-">> THEN 0 ELSE AtoiDigits(b)

\* the named result `entry` as Parse returns it on an error: LogEntry{}
ZeroLogEntry == NewLogEntry("", <<>>, 0, 0)

Parse_dateIgnored(line) ==
    IF ~line.matches THEN [err |-> TRUE, entry |-> ZeroLogEntry]
    ELSE [err |-> FALSE,
          entry |-> NewLogEntry(line.method, line.path, AtoiStatus(line.status),
                                AtoiBytes(line.bytes))]

\* w3CommonLogParser.Parse
Parse(line) ==
    IF ~line.matches THEN [err |-> TRUE, entry |-> ZeroLogEntry]
    ELSE IF ~line.dateOk THEN [err |-> TRUE, entry |-> ZeroLogEntry]
    ELSE [err |-> FALSE,
          entry |-> NewLogEntry(line.method, line.path, AtoiStatus(line.status),
                                AtoiBytes(line.bytes))]

\* case line, ok := <-p.tail.Lines with ok: parse, skip on error, else go to send
ProdReadLine ==
    /\ prodPc = "select"
    /\ tailOpen
    /\ linesRead < MaxLines
    /\ \E line \in Lines :
         LET r == Parse(line)
         IN  /\ IF r.err
                THEN UNCHANGED <<prodPc, prodEntry>>
                ELSE prodPc' = "send" /\ prodEntry' = r.entry
             /\ linesLog' = Keep(linesLog, line)
    /\ linesRead' = linesRead + 1
    /\ UNCHANGED <<testVars, cfg, scenario, cancelled, tailOpen, ticks, entriesClosed,
                   entriesSent, aggVars, fanVars, alertVars, statsInClosed, uiVars,
                   monVars>>

\* the tail library closes Lines (its goroutine ended on an error or was stopped)
TailClose ==
    /\ monPc \in {"uiRun", "harness"}
    /\ tailOpen
    /\ tailOpen' = FALSE
    /\ UNCHANGED <<testVars, cfg, scenario, cancelled, linesRead, linesLog, ticks, prodVars,
                   aggVars, fanVars, alertVars, statsInClosed, uiVars, monVars>>

ProdLeave_loops ==
    /\ prodPc = "select"
    /\ entriesClosed' = TRUE
    /\ UNCHANGED <<testVars, cfg, scenario, cancelled, envVars, prodPc, prodEntry,
                   entriesSent, aggVars, fanVars, alertVars, statsInClosed, uiVars,
                   monVars>>

\* break LOOP, close(entries)
ProdLeave ==
    /\ prodPc = "select"
    /\ prodPc' = "done"
    /\ entriesClosed' = TRUE
    /\ UNCHANGED <<testVars, cfg, scenario, cancelled, envVars, prodEntry, entriesSent, aggVars,
                   fanVars, alertVars, statsInClosed, uiVars, monVars>>

\* case line, ok := <-p.tail.Lines with !ok
ProdTailClosed == ~tailOpen /\ ProdLeave

\* case <-ctx.Done()
ProdCancelled == cancelled /\ ProdLeave

(***************************************************************************)
(* TrafficSupervisor.                                                      *)
(***************************************************************************)
\* produceStats: Update with every entry of the interval, from the Back (oldest)
RECURSIVE produceStats(_)
produceStats(interval) ==
    IF interval = <<>> THEN NewEmptyTrafficStats
    ELSE Update(produceStats(Tail(interval)), Head(interval))

\* entries <- entry meets case entry, ok := <-entries: entriesBuffer.PushFront(entry)
AggRecvEntry ==
    /\ prodPc = "send"
    /\ aggPc = "select"
    /\ entriesBuffer' = <<prodEntry>> \o entriesBuffer
    /\ received' = received + 1
    /\ entriesSent' = Append(entriesSent, prodEntry)
    /\ prodPc' = "select"
    /\ prodEntry' = None
    /\ UNCHANGED <<testVars, cfg, scenario, cancelled, envVars, entriesClosed, aggPc, tasks,
                   statsClosed, statsEmitted, fanVars, alertVars, statsInClosed, uiVars,
                   monVars>>

\* case <-ticker.C: detach the buffer, start a produceStats goroutine on it
AggTick_skipsEmpty ==
    /\ aggPc = "select"
    /\ ticks < MaxTicks
    /\ ticks' = ticks + 1
    /\ tasks' = IF entriesBuffer = <<>> THEN tasks
                ELSE tasks \cup {[tick |-> ticks + 1, n |-> Len(entriesBuffer),
                                  entries |-> entriesBuffer,
                                  stats |-> produceStats(entriesBuffer)]}
    /\ entriesBuffer' = <<>>
    /\ UNCHANGED <<testVars, cfg, scenario, cancelled, tailOpen, linesRead, linesLog, prodVars,
                   aggPc, statsClosed, received, statsEmitted, fanVars, alertVars,
                   statsInClosed, uiVars, monVars>>

AggTick_keepsBuffer ==
    /\ aggPc = "select"
    /\ ticks < MaxTicks
    /\ ticks' = ticks + 1
    /\ tasks' = tasks \cup {[tick |-> ticks + 1, n |-> Len(entriesBuffer),
                              entries |-> entriesBuffer,
                              stats |-> produceStats(entriesBuffer)]}
    /\ UNCHANGED <<testVars, cfg, scenario, cancelled, tailOpen, linesRead, linesLog,
                   prodVars, aggPc, entriesBuffer, statsClosed, received, statsEmitted,
                   fanVars, alertVars, statsInClosed, uiVars, monVars>>

AggTick_inline ==
    /\ aggPc = "select"
    /\ ticks < MaxTicks
    /\ ticks' = ticks + 1
    /\ tasks' = tasks \cup {[tick |-> ticks + 1, n |-> Len(entriesBuffer),
                              entries |-> entriesBuffer,
                              stats |-> produceStats(entriesBuffer)]}
    /\ entriesBuffer' = <<>>
    /\ aggPc' = IF tasks = {} THEN "select" ELSE "sending"
    /\ UNCHANGED <<testVars, cfg, scenario, cancelled, tailOpen, linesRead, linesLog,
                   prodVars, statsClosed, received, statsEmitted, fanVars, alertVars,
                   statsInClosed, uiVars, monVars>>

\* case <-ticker.C: go produceStats(entriesBuffer, ...); fresh buffer.  A task
\* carries its tick number and the size of its interval next to the snapshot
\* it will send, and the interval itself.
AggTick ==
    /\ aggPc = "select"
    /\ ticks < MaxTicks
    /\ ticks' = ticks + 1
    /\ tasks' = tasks \cup {[tick |-> ticks + 1, n |-> Len(entriesBuffer),
                              entries |-> entriesBuffer,
                              stats |-> produceStats(entriesBuffer)]}
    /\ entriesBuffer' = <<>>
    /\ UNCHANGED <<testVars, cfg, scenario, cancelled, tailOpen, linesRead, linesLog, prodVars,
                   aggPc, statsClosed, received, statsEmitted, fanVars, alertVars,
                   statsInClosed, uiVars, monVars>>

\* break LOOP: on to wg.Wait()
AggLeave ==
    /\ aggPc = "select"
    /\ aggPc' = "wait"
    /\ UNCHANGED <<testVars, cfg, scenario, cancelled, envVars, prodVars, entriesBuffer, tasks,
                   statsClosed, received, statsEmitted, fanVars, alertVars,
                   statsInClosed, uiVars, monVars>>

\* case entry, ok := <-entries with !ok
AggEntriesClosed == entriesClosed /\ AggLeave

\* case <-ctx.Done()
AggCancelled == cancelled /\ AggLeave

AggClose_noWait ==
    /\ aggPc = "wait"
    /\ aggPc' = "done"
    /\ statsClosed' = TRUE
    /\ UNCHANGED <<testVars, cfg, scenario, cancelled, envVars, prodVars, entriesBuffer,
                   tasks, received, statsEmitted, fanVars, alertVars, statsInClosed,
                   uiVars, monVars>>

\* wg.Wait() returns when no produceStats goroutine is left; close(stats)
AggClose ==
    /\ aggPc = "wait"
    /\ tasks = {}
    /\ aggPc' = "done"
    /\ statsClosed' = TRUE
    /\ UNCHANGED <<testVars, cfg, scenario, cancelled, envVars, prodVars, entriesBuffer, tasks,
                   received, statsEmitted, fanVars, alertVars, statsInClosed, uiVars,
                   monVars>>

(***************************************************************************)
(* broadcastTrafficStats.                                                  *)
(***************************************************************************)
\* statsC <- stats of a produceStats goroutine meets case msg := <-input; wg.Done()
FanRecv ==
    /\ fanPc = "select"
    /\ \E t \in tasks :
         /\ tasks' = tasks \ {t}
         /\ fanMsg' = t.stats
         /\ statsEmitted' = Append(statsEmitted, t)
    /\ fanPc' = "send1"
    /\ UNCHANGED <<testVars, cfg, scenario, cancelled, envVars, prodVars, aggPc, entriesBuffer,
                   statsClosed, received, toAlerts, toUI, alertVars, statsInClosed,
                   uiVars, monVars>>

\* case msg := <-input on the closed channel: the zero TrafficStats, no ok test
FanRecvClosed ==
    /\ fanPc = "select"
    /\ statsClosed
    /\ fanMsg' = StatsOfReqs(0)
    /\ fanPc' = "send1"
    /\ UNCHANGED <<testVars, cfg, scenario, cancelled, envVars, prodVars, aggVars, toAlerts, toUI,
                   alertVars, statsInClosed, uiVars, monVars>>

\* case <-ctx.Done(): return
FanCancelled ==
    /\ fanPc = "select"
    /\ cancelled
    /\ fanPc' = "done"
    /\ UNCHANGED <<testVars, cfg, scenario, cancelled, envVars, prodVars, aggVars, fanMsg, toAlerts,
                   toUI, alertVars, statsInClosed, uiVars, monVars>>

FanToAlerts_noWait ==
    /\ fanPc = "send1"
    /\ alertPc \in {"select", "send"}
    /\ trackAlerts(fanMsg)
    /\ toAlerts' = Record(toAlerts, fanMsg)
    /\ fanPc' = "send2"
    /\ UNCHANGED <<testVars, cfg, scenario, cancelled, envVars, prodVars, aggVars, fanMsg,
                   toUI, statsInClosed, uiVars, monVars>>

FanToAlerts_skipsUI ==
    /\ fanPc = "send1"
    /\ alertPc = "select"
    /\ trackAlerts(fanMsg)
    /\ toAlerts' = Record(toAlerts, fanMsg)
    /\ fanPc' = "select"
    /\ UNCHANGED <<testVars, cfg, scenario, cancelled, envVars, prodVars, aggVars, fanMsg,
                   toUI, statsInClosed, uiVars, monVars>>

\* output1 <- msg meets case s, ok := <-stats of the AlertSupervisor
FanToAlerts ==
    /\ fanPc = "send1"
    /\ alertPc = "select"
    /\ trackAlerts(fanMsg)
    /\ toAlerts' = Record(toAlerts, fanMsg)
    /\ fanPc' = "send2"
    /\ UNCHANGED <<testVars, cfg, scenario, cancelled, envVars, prodVars, aggVars, fanMsg, toUI,
                   statsInClosed, uiVars, monVars>>

\* output2 <- msg meets case s, ok := <-stats of the UI, which shows the snapshot
FanToUI ==
    /\ fanPc = "send2"
    /\ uiPc = "run"
    /\ shownStats' = fanMsg
    /\ toUI' = Record(toUI, fanMsg)
    /\ fanPc' = "select"
    /\ fanMsg' = None
    /\ UNCHANGED <<testVars, cfg, scenario, cancelled, envVars, prodVars, aggVars, toAlerts,
                   alertVars, statsInClosed, uiPc, uiExit, shownAlert, monVars>>

(***************************************************************************)
(* UI.Run.                                                                 *)
(***************************************************************************)
\* break LOOP
UILeave(why) ==
    /\ uiPc = "run"
    /\ uiPc' = "done"
    /\ uiExit' = why
    /\ UNCHANGED <<testVars, cfg, scenario, cancelled, envVars, prodVars, aggVars, fanVars,
                   alertVars, statsInClosed, shownStats, shownAlert, monVars>>

\* case e := <-uiEvents with e.ID "q" or "<C-c>"
UIQuit == UILeave("quit")

UIKey_quits == UILeave("key")

\* case e := <-uiEvents with any other key: the loop goes on
UIKey ==
    /\ uiPc = "run"
    /\ UNCHANGED vars

\* case s, ok := <-stats with !ok, where the stats input is a channel its
\* sender closes (in Monitor.Run it is output2 of broadcastTrafficStats)
UIStatsClosed == statsClosed /\ UILeave("statsClosed")

\* case a, ok := <-alertsBus with !ok
UIAlertsClosed == alertsClosed /\ UILeave("alertsClosed")

\* case <-ctx.Done()
UICancelled == cancelled /\ UILeave("cancelled")

\* The top lists of the UI.  fromMap ranges over the map in an order Go leaves
\* open and sort.Sort is not stable: the sorted entries are any arrangement
\* of the map's entries with non-increasing values.
RECURSIVE SortedEntries(_)
SortedEntries(m) ==
    IF DOMAIN m = {} THEN {<<>>}
    ELSE LET top == {k \in DOMAIN m : \A j \in DOMAIN m : m[j] <= m[k]}
         IN  UNION { { <<[val |-> m[k], key |-> k]>> \o rest :
                         rest \in SortedEntries([j \in DOMAIN m \ {k} |-> m[j]]) }
                     : k \in top }

\* the rows appended by the loop of marshalTopList: it stops after the row
\* that makes count >= max
TopRows_all(sorted, max) == sorted

TopRows(sorted, max) ==
    LET n == IF max < 1 THEN 1 ELSE max
    IN  SubSeq(sorted, 1, IF Len(sorted) < n THEN Len(sorted) ELSE n)

\* entries.marshalTopList: the outputs it may return, each as the title row
\* and the entry rows
marshalTopList(m, title, max) ==
    IF Cardinality(DOMAIN m) < 1
    THEN {[title |-> "", rows |-> <<>>, waiting |-> TRUE]}
    ELSE {[title |-> title, rows |-> TopRows(sorted, max), waiting |-> FALSE] :
            sorted \in SortedEntries(m)}

formatSections(s) == marshalTopList(s.SectionHits, "Hits - Section", 20)

formatStatus(s) == marshalTopList(s.StatusClassHits, "Hits - HTTP status", 10)

formatMethods(s) == marshalTopList(s.MethodHits, "Hits - HTTP method", 10)

\* the rows of the alerts widget before any alert
buildAlertsWidget == <<"", "no alerts triggered">>

\* the rows of the alerts widget for an alert: the text of either kind with
\* the rate of the alert
formatAlerts(a) ==
    <<"", IF a.Open THEN "[!!] High traffic generated an alert"
                    ELSE "[OK] High traffic alert recovered", a.Hits>>

\* the rows of the traffic widget for a snapshot
formatTraffic(s) == <<"", s.TotalReqs, s.Bytes>>

\* alerts.Rows as UI.Run leaves it: set at the construction of the widget and
\* in the case of an alert only
alertsRows == IF shownAlert = None THEN buildAlertsWidget ELSE formatAlerts(shownAlert)

UIRecvAlert_deaf ==
    /\ uiPc = "deaf"
    /\ AlertSent
    /\ shownAlert' = alertInHand
    /\ UNCHANGED <<testVars, cfg, scenario, cancelled, envVars, prodVars, aggVars, fanVars,
                   statsInClosed, uiPc, uiExit, shownStats, monVars>>

\* alerts <- alert meets case a, ok := <-alertsBus: the UI shows the alert
UIRecvAlert ==
    /\ uiPc = "run"
    /\ AlertSent
    /\ shownAlert' = alertInHand
    /\ UNCHANGED <<testVars, cfg, scenario, cancelled, envVars, prodVars, aggVars, fanVars,
                   statsInClosed, uiPc, uiExit, shownStats, monVars>>

(***************************************************************************)
(* Monitor.Run.                                                            *)
(***************************************************************************)
MonSetupProducer_ignoresErr ==
    /\ monPc = "setupProducer"
    /\ \E ok \in BOOLEAN :
         IF ok THEN /\ monPc' = "setupUI" /\ tailHeld' = TRUE
                    /\ UNCHANGED <<runErr, exitCode>>
               ELSE /\ monPc' = "setupUI" /\ tailHeld' = FALSE
                    /\ runErr' = "setup file watcher"
                    /\ UNCHANGED exitCode
    /\ UNCHANGED <<testVars, cfg, scenario, cancelled, envVars, prodVars, aggVars, fanVars,
                   alertVars, statsInClosed, uiVars, termHeld>>

\* m.fileWatcher.Setup(): tail.TailFile fails (MustExist) or gives the tail.  On
\* the error Run returns it and main prints it and exits with os.Exit(1).
MonSetupProducer ==
    /\ monPc = "setupProducer"
    /\ \E ok \in BOOLEAN :
         IF ok THEN /\ monPc' = "setupUI" /\ tailHeld' = TRUE
                    /\ UNCHANGED <<runErr, exitCode>>
               ELSE /\ monPc' = "failed" /\ tailHeld' = FALSE
                    /\ runErr' = "setup file watcher"
                    /\ exitCode' = 1
    /\ UNCHANGED <<testVars, cfg, scenario, cancelled, envVars, prodVars, aggVars, fanVars,
                   alertVars, statsInClosed, uiVars, termHeld>>

MonSetupUI_leaksTail ==
    /\ monPc = "setupUI"
    /\ \E ok \in BOOLEAN :
         IF ok
         THEN /\ monPc' = "uiRun"
              /\ termHeld' = TRUE
              /\ prodPc' = "select" /\ aggPc' = "select" /\ fanPc' = "select"
              /\ alertPc' = "select" /\ uiPc' = "run"
              /\ UNCHANGED <<tailHeld, runErr, exitCode>>
         ELSE /\ monPc' = "failed"
              /\ runErr' = "setup ui"
              /\ exitCode' = 1
              /\ UNCHANGED <<tailHeld, termHeld, prodPc, aggPc, fanPc, alertPc, uiPc>>
    /\ UNCHANGED <<testVars, cfg, scenario, cancelled, envVars, prodEntry, entriesClosed,
                   entriesSent, entriesBuffer, tasks, statsClosed, received, statsEmitted,
                   fanMsg, toAlerts, toUI, statsBuffer, reqsInWindow, ongoing,
                   alertInHand, alertsClosed, fed, ongoingHist, alertsLog, alertsSent,
                   statsInClosed, uiExit, shownStats, shownAlert>>

\* m.ui.Setup(): on error return (the deferred cleanupProducer runs); else launch
\* the three components and broadcastTrafficStats and enter ui.Run
MonSetupUI ==
    /\ monPc = "setupUI"
    /\ \E ok \in BOOLEAN :
         IF ok
         THEN /\ monPc' = "uiRun"
              /\ termHeld' = TRUE
              /\ prodPc' = "select" /\ aggPc' = "select" /\ fanPc' = "select"
              /\ alertPc' = "select" /\ uiPc' = "run"
              /\ UNCHANGED <<tailHeld, runErr, exitCode>>
         ELSE /\ monPc' = "failed"
              /\ tailHeld' = FALSE
              /\ runErr' = "setup ui"
              /\ exitCode' = 1
              /\ UNCHANGED <<termHeld, prodPc, aggPc, fanPc, alertPc, uiPc>>
    /\ UNCHANGED <<testVars, cfg, scenario, cancelled, envVars, prodEntry, entriesClosed,
                   entriesSent, entriesBuffer, tasks, statsClosed, received, statsEmitted,
                   fanMsg, toAlerts, toUI, statsBuffer, reqsInWindow, ongoing,
                   alertInHand, alertsClosed, fed, ongoingHist, alertsLog, alertsSent,
                   statsInClosed, uiExit, shownStats, shownAlert>>

\* m.ui.Run returned: cancel(), then wg.Wait()
MonCancel ==
    /\ monPc = "uiRun"
    /\ uiPc = "done"
    /\ cancelled' = TRUE
    /\ monPc' = "wgWait"
    /\ UNCHANGED <<testVars, cfg, scenario, envVars, prodVars, aggVars, fanVars, alertVars,
                   statsInClosed, uiVars, tailHeld, termHeld, runErr, exitCode>>

MonWaited_noWait ==
    /\ monPc = "wgWait"
    /\ termHeld' = FALSE
    /\ monPc' = "cleanupProducer"
    /\ UNCHANGED <<testVars, cfg, scenario, cancelled, envVars, prodVars, aggVars, fanVars,
                   alertVars, statsInClosed, uiVars, tailHeld, runErr, exitCode>>

\* wg.Wait() returns when Producer, TrafficSupervisor and AlertSupervisor have
\* returned; return nil runs the deferred cleanupUI first
MonWaited ==
    /\ monPc = "wgWait"
    /\ prodPc = "done" /\ aggPc = "done" /\ alertPc = "done"
    /\ termHeld' = FALSE
    /\ monPc' = "cleanupProducer"
    /\ UNCHANGED <<testVars, cfg, scenario, cancelled, envVars, prodVars, aggVars, fanVars,
                   alertVars, statsInClosed, uiVars, tailHeld, runErr, exitCode>>

\* the deferred cleanupProducer, then Run has returned nil and main exits
\* with os.Exit(0)
MonReturn ==
    /\ monPc = "cleanupProducer"
    /\ tailHeld' = FALSE
    /\ monPc' = "returned"
    /\ exitCode' = 0
    /\ UNCHANGED <<testVars, cfg, scenario, cancelled, envVars, prodVars, aggVars, fanVars,
                   alertVars, statsInClosed, uiVars, termHeld, runErr>>

(***************************************************************************)
(* The pipeline: Monitor.Run from its first statement.                     *)
(***************************************************************************)
InitCommon ==
    /\ cancelled = FALSE
    /\ tailOpen = TRUE /\ linesRead = 0 /\ linesLog = <<>> /\ ticks = 0
    /\ prodEntry = None /\ entriesClosed = FALSE /\ entriesSent = <<>>
    /\ entriesBuffer = <<>> /\ tasks = {} /\ statsClosed = FALSE
    /\ received = 0 /\ statsEmitted = <<>>
    /\ fanPc = "idle" /\ fanMsg = None /\ toAlerts = <<>> /\ toUI = <<>>
    /\ statsBuffer = <<>> /\ reqsInWindow = 0 /\ ongoing = FALSE
    /\ alertInHand = None /\ alertsClosed = FALSE /\ statsInClosed = FALSE
    /\ fed = <<>> /\ ongoingHist = <<>> /\ alertsLog = <<>> /\ alertsSent = <<>>
    /\ uiExit = "none" /\ shownStats = None /\ shownAlert = None
    /\ tailHeld = FALSE /\ termHeld = FALSE /\ runErr = "none" /\ exitCode = -1
    /\ tcOut = None

\* the options of the pipeline runs: one snapshot fills the alert window
PipelineCfg == [threshold |-> 1, refresh |-> 1, window |-> 1]

Init ==
    /\ InitCommon
    /\ tcIn = None
    /\ scenario = "pipeline"
    /\ cfg = PipelineCfg
    /\ prodPc = "idle" /\ aggPc = "idle" /\ alertPc = "idle" /\ uiPc = "idle"
    /\ monPc = "setupProducer"

\* The select cases of a closed stats or alerts input of the UI and of the
\* AlertSupervisor, and the UI's ctx.Done() case, are no steps of the pipeline:
\* broadcastTrafficStats never closes its outputs, and alerts is closed and the
\* context cancelled only after m.ui.Run has returned.
Next ==
    \/ MonSetupProducer \/ MonSetupUI \/ MonCancel \/ MonWaited \/ MonReturn
    \/ ProdReadLine \/ TailClose \/ ProdTailClosed \/ ProdCancelled
    \/ AggRecvEntry \/ AggTick \/ AggEntriesClosed \/ AggCancelled \/ AggClose
    \/ FanRecv \/ FanRecvClosed \/ FanCancelled \/ FanToAlerts \/ FanToUI
    \/ AlertCancelled
    \/ UIQuit \/ UIKey \/ UIRecvAlert

Spec == Init /\ [][Next]_vars

(***************************************************************************)
(* The AlertSupervisor on its own, driven as its tests drive it: a stream  *)
(* of TrafficStats{TotalReqs: n} on its stats input, which is then closed, *)
(* or a cancelled context; a consumer receives from the alerts channel.    *)
(* The scenario "free" feeds any stream of at most MaxSnapshots snapshots  *)
(* under any of the small options; S1, S2 and S3 are the streams and the   *)
(* options of the three tests.                                             *)
(***************************************************************************)
Scenarios == {"free", "S1", "S2", "S3"}

Repeat(n, k) == [i \in 1..k |-> n]

ScenarioStream(sc) ==
    CASE sc = "S1" -> Repeat(10, 20)
      [] sc = "S2" -> Repeat(11, 10)
      [] sc = "S3" -> Repeat(5, 5) \o Repeat(6, 5) \o Repeat(5, 5) \o Repeat(2, 5)
      [] OTHER -> <<>>

ScenarioCfg(sc) ==
    CASE sc = "S3" -> [threshold |-> 5, refresh |-> 1, window |-> 5]
      [] OTHER -> [threshold |-> 1, refresh |-> 10, window |-> 100]

FreeConfigs == [threshold : 0..MaxThreshold, refresh : 1..MaxRefresh, window : 1..MaxWindow]

InitAlert ==
    /\ InitCommon
    /\ tcIn = None
    /\ scenario \in Scenarios
    /\ cfg \in (IF scenario = "free" THEN FreeConfigs ELSE {ScenarioCfg(scenario)})
    /\ prodPc = "idle" /\ aggPc = "idle" /\ alertPc = "select" /\ uiPc = "idle"
    /\ monPc = "harness"

\* the TotalReqs the driver may send next
NextReqs ==
    IF scenario = "free"
    THEN IF Len(fed) < MaxSnapshots THEN 0..MaxReq ELSE {}
    ELSE IF Len(fed) < Len(ScenarioStream(scenario))
         THEN {ScenarioStream(scenario)[Len(fed) + 1]} ELSE {}

\* sendStats: the next snapshot of the stream is received by the select of Run
HarnessSendStats ==
    /\ alertPc = "select"
    /\ ~statsInClosed
    /\ \E n \in NextReqs : trackAlerts(StatsOfReqs(n))
    /\ UNCHANGED <<testVars, cfg, scenario, cancelled, envVars, prodVars, aggVars, fanVars,
                   statsInClosed, uiVars, monVars>>

\* close(stats), after the whole stream of a test, at any point of a free stream
HarnessCloseStats ==
    /\ ~statsInClosed
    /\ NextReqs = {} \/ scenario = "free"
    /\ statsInClosed' = TRUE
    /\ UNCHANGED <<testVars, cfg, scenario, cancelled, envVars, prodVars, aggVars, fanVars,
                   alertVars, uiVars, monVars>>

\* cancel() of the test's context
HarnessCancel ==
    /\ scenario \notin {"S1", "S2", "S3"}
    /\ ~cancelled
    /\ cancelled' = TRUE
    /\ UNCHANGED <<testVars, cfg, scenario, envVars, prodVars, aggVars, fanVars, alertVars,
                   statsInClosed, uiVars, monVars>>

\* a, ok := <-alerts of the test meets alerts <- alert
HarnessRecvAlert ==
    /\ AlertSent
    /\ UNCHANGED <<testVars, cfg, scenario, cancelled, envVars, prodVars, aggVars, fanVars,
                   statsInClosed, uiVars, monVars>>

NextAlert ==
    \/ HarnessSendStats \/ HarnessCloseStats \/ HarnessCancel \/ HarnessRecvAlert
    \/ AlertStatsClosed \/ AlertCancelled

SpecAlert == InitAlert /\ [][NextAlert]_vars

\* the select of alertSupervisor.Run with a ready case that ends the loop is
\* not starved
FairnessAlert == WF_vars(AlertCancelled) /\ WF_vars(AlertStatsClosed)

FairSpecAlert == InitAlert /\ [][NextAlert]_vars /\ FairnessAlert

(***************************************************************************)
(* The Producer on its own, driven as its tests drive it: lines appear in  *)
(* the tailed file, a consumer receives from the entries channel, the      *)
(* context is cancelled at some point or the tail ends.                    *)
(***************************************************************************)
InitProducer ==
    /\ InitCommon
    /\ tcIn = None
    /\ scenario = "producer"
    /\ cfg = PipelineCfg
    /\ prodPc = "select" /\ aggPc = "idle" /\ alertPc = "idle" /\ uiPc = "idle"
    /\ monPc = "harness"

\* read, ok = <-entries of the test meets entries <- entry
HarnessRecvEntry ==
    /\ prodPc = "send"
    /\ entriesSent' = Append(entriesSent, prodEntry)
    /\ prodPc' = "select"
    /\ prodEntry' = None
    /\ UNCHANGED <<testVars, cfg, scenario, cancelled, envVars, entriesClosed, aggVars, fanVars,
                   alertVars, statsInClosed, uiVars, monVars>>

NextProducer ==
    \/ ProdReadLine \/ TailClose \/ ProdTailClosed \/ ProdCancelled
    \/ HarnessRecvEntry \/ HarnessCancel

SpecProducer == InitProducer /\ [][NextProducer]_vars

(***************************************************************************)
(* The TrafficSupervisor on its own, driven as its tests drive it: entries *)
(* are sent on its entries channel, which may then be closed, the ticker   *)
(* ticks, a consumer receives from the stats channel, the context may be   *)
(* cancelled.  The entries are those of TestTrafficStats.                  *)
(***************************************************************************)
TestEntries ==
    { NewLogEntry("GET", <<"/", "p">>, 200, 0),
      NewLogEntry("GET", <<>>, 101, 3),
      NewLogEntry("PUT", <<"a", "b">>, 301, 1),
      NewLogEntry("GET", <<"a", "/", "b", "/", "c">>, 401, 2),
      NewLogEntry("PUT", <<"/", "p", "/", "q">>, 501, 0) }

InitTraffic ==
    /\ InitCommon
    /\ tcIn = None
    /\ scenario = "traffic"
    /\ cfg = PipelineCfg
    /\ prodPc = "idle" /\ aggPc = "select" /\ alertPc = "idle" /\ uiPc = "idle"
    /\ monPc = "harness"

\* entries <- entry of the test meets case entry, ok := <-entries
HarnessSendEntry ==
    /\ aggPc = "select"
    /\ ~entriesClosed
    /\ received < MaxEntries
    /\ \E e \in TestEntries :
         /\ entriesBuffer' = <<e>> \o entriesBuffer
         /\ entriesSent' = Append(entriesSent, e)
    /\ received' = received + 1
    /\ UNCHANGED <<testVars, cfg, scenario, cancelled, envVars, prodPc, prodEntry, entriesClosed,
                   aggPc, tasks, statsClosed, statsEmitted, fanVars, alertVars,
                   statsInClosed, uiVars, monVars>>

\* close(entries) of the test
HarnessCloseEntries ==
    /\ ~entriesClosed
    /\ entriesClosed' = TRUE
    /\ UNCHANGED <<testVars, cfg, scenario, cancelled, envVars, prodPc, prodEntry, entriesSent,
                   aggVars, fanVars, alertVars, statsInClosed, uiVars, monVars>>

\* data, ok := <-stats of the test meets statsC <- stats of a produceStats
\* goroutine
HarnessRecvStats ==
    /\ \E s \in tasks :
         /\ tasks' = tasks \ {s}
         /\ statsEmitted' = Append(statsEmitted, s)
    /\ UNCHANGED <<testVars, cfg, scenario, cancelled, envVars, prodVars, aggPc, entriesBuffer,
                   statsClosed, received, fanVars, alertVars, statsInClosed, uiVars,
                   monVars>>

NextTraffic ==
    \/ HarnessSendEntry \/ HarnessCloseEntries \/ HarnessRecvStats \/ HarnessCancel
    \/ AggTick \/ AggEntriesClosed \/ AggCancelled \/ AggClose

SpecTraffic == InitTraffic /\ [][NextTraffic]_vars

(***************************************************************************)
(* UI.Run on its own, inside the Monitor.Run that called it: a driver      *)
(* sends snapshots and alerts on the two inputs and may close either, keys *)
(* are pressed, the parent context may be cancelled; when UI.Run returns   *)
(* Monitor.Run calls cancel().  A select of UI.Run with a ready case that  *)
(* ends the loop is not starved.                                           *)
(***************************************************************************)
InitUI ==
    /\ InitCommon
    /\ tcIn = None
    /\ scenario = "ui"
    /\ cfg = PipelineCfg
    /\ prodPc = "idle" /\ aggPc = "idle" /\ alertPc = "idle" /\ uiPc = "run"
    /\ monPc = "uiRun"

UIEvents == Len(toUI) + Len(alertsSent)

HarnessStatsToUI_resetsAlerts ==
    /\ uiPc = "run"
    /\ ~statsClosed
    /\ UIEvents < MaxUIEvents
    /\ \E n \in 0..MaxReq :
         /\ shownStats' = StatsOfReqs(n)
         /\ toUI' = Append(toUI, StatsOfReqs(n))
    /\ shownAlert' = None
    /\ UNCHANGED <<testVars, cfg, scenario, cancelled, envVars, prodVars, aggVars, fanPc, fanMsg,
                   toAlerts, alertVars, statsInClosed, uiPc, uiExit, monVars>>

\* a snapshot sent on the stats input meets case s, ok := <-stats
HarnessStatsToUI ==
    /\ uiPc = "run"
    /\ ~statsClosed
    /\ UIEvents < MaxUIEvents
    /\ \E n \in 0..MaxReq :
         /\ shownStats' = StatsOfReqs(n)
         /\ toUI' = Append(toUI, StatsOfReqs(n))
    /\ UNCHANGED <<testVars, cfg, scenario, cancelled, envVars, prodVars, aggVars, fanPc, fanMsg,
                   toAlerts, alertVars, statsInClosed, uiPc, uiExit, shownAlert, monVars>>

\* an alert sent on the alerts input meets case a, ok := <-alertsBus
HarnessAlertToUI ==
    /\ uiPc = "run"
    /\ ~alertsClosed
    /\ UIEvents < MaxUIEvents
    /\ \E a \in {ThresholdAlert(TRUE, 2, 1), ThresholdAlert(FALSE, 0, 1)} :
         /\ shownAlert' = a
         /\ alertsSent' = Append(alertsSent, a)
    /\ UNCHANGED <<testVars, cfg, scenario, cancelled, envVars, prodVars, aggVars, fanVars,
                   alertPc, statsBuffer, reqsInWindow, ongoing, alertInHand,
                   alertsClosed, fed, ongoingHist, alertsLog, statsInClosed, uiPc,
                   uiExit, shownStats, monVars>>

\* the driver closes the stats input
HarnessCloseUIStats ==
    /\ ~statsClosed
    /\ statsClosed' = TRUE
    /\ UNCHANGED <<testVars, cfg, scenario, cancelled, envVars, prodVars, aggPc, entriesBuffer,
                   tasks, received, statsEmitted, fanVars, alertVars, statsInClosed,
                   uiVars, monVars>>

\* the driver closes the alerts input
HarnessCloseAlerts ==
    /\ ~alertsClosed
    /\ alertsClosed' = TRUE
    /\ UNCHANGED <<testVars, cfg, scenario, cancelled, envVars, prodVars, aggVars, fanVars,
                   alertPc, statsBuffer, reqsInWindow, ongoing, alertInHand, fed,
                   ongoingHist, alertsLog, alertsSent, statsInClosed, uiVars, monVars>>

NextUI ==
    \/ HarnessStatsToUI \/ HarnessAlertToUI \/ HarnessCloseUIStats
    \/ HarnessCloseAlerts \/ HarnessCancel
    \/ UIQuit \/ UIKey \/ UIStatsClosed \/ UIAlertsClosed \/ UICancelled
    \/ MonCancel

FairnessUI ==
    /\ WF_vars(UIStatsClosed) /\ WF_vars(UIAlertsClosed) /\ WF_vars(UICancelled)
    /\ WF_vars(MonCancel)

SpecUI == InitUI /\ [][NextUI]_vars /\ FairnessUI

(***************************************************************************)
(* main with any integers for the flags -refresh, -threshold and -window:  *)
(* flag.Parse, NewMonitor, then Monitor.Run up to the launch of the        *)
(* components.  An integer division by zero and a non-positive ticker      *)
(* interval are run-time panics, which end the process with status 2.      *)
(***************************************************************************)
AnyConfigs ==
    [threshold : -1..MaxThreshold, refresh : -1..MaxRefresh, window : -1..MaxWindow]

InitConfig ==
    /\ InitCommon
    /\ tcIn = None
    /\ scenario = "config"
    /\ cfg \in AnyConfigs
    /\ prodPc = "idle" /\ aggPc = "idle" /\ alertPc = "idle" /\ uiPc = "idle"
    /\ monPc = "main"

\* main: logmon.NewMonitor(opts).  NewAlertsSupervisor divides AlertWindow by
\* RefreshInterval; nothing else looks at the options.
MainNewMonitor ==
    /\ monPc = "main"
    /\ IF cfg.refresh = 0
       THEN monPc' = "panicked" /\ exitCode' = 2
       ELSE monPc' = "setupProducer" /\ UNCHANGED exitCode
    /\ UNCHANGED <<testVars, cfg, scenario, cancelled, envVars, prodVars, aggVars, fanVars,
                   alertVars, statsInClosed, uiVars, tailHeld, termHeld, runErr>>

\* trafficSupervisor.Run: time.NewTicker(t.refreshInterval) panics on a
\* non-positive interval, in the goroutine Monitor.Run launched
AggNewTickerPanics ==
    /\ monPc = "uiRun"
    /\ aggPc = "select"
    /\ cfg.refresh <= 0
    /\ aggPc' = "panicked"
    /\ monPc' = "panicked"
    /\ exitCode' = 2
    /\ UNCHANGED <<testVars, cfg, scenario, cancelled, envVars, prodVars, entriesBuffer, tasks,
                   statsClosed, received, statsEmitted, fanVars, alertVars,
                   statsInClosed, uiVars, tailHeld, termHeld, runErr>>

NextConfig == MainNewMonitor \/ MonSetupProducer \/ MonSetupUI \/ AggNewTickerPanics

SpecConfig == InitConfig /\ [][NextConfig]_vars

(***************************************************************************)
(* TrafficStats.Update on its own, driven as TestTrafficStats drives it:   *)
(* every case takes the base entry with another status code or another     *)
(* path, calls Update once on NewEmptyTrafficStats() and looks at the      *)
(* result.  The status codes run from -1 to MaxCode, the paths over all    *)
(* strings of at most MaxPathLen characters of a small alphabet, next to   *)
(* those of the tests.                                                     *)
(***************************************************************************)
BaseEntry == NewLogEntry("GET", <<"/", "p", "a", "t", "h">>, 200, 0)

Codes == -1..MaxCode

PathChars == {"/", "a", "b"}

RECURSIVE PathsOfLen(_)
PathsOfLen(n) ==
    IF n = 0 THEN {<<>>}
    ELSE {<<c>> \o p : c \in PathChars, p \in PathsOfLen(n - 1)}

TestPaths ==
    { <<>>, <<"/">>, <<"/", "f", "o", "o", "/", "b", "a", "r">>, <<"a", "b", "c">>,
      <<"a", "/", "b", "/", "c">>, <<"a", "b", "c", "d", "e">>,
      <<"a", "/", "b", "b", "/", "c", "c", "c">> }

Paths == TestPaths \cup UNION {PathsOfLen(n) : n \in 0..MaxPathLen}

InitStatsTest ==
    /\ InitCommon
    /\ scenario = "statsTest"
    /\ cfg = PipelineCfg
    /\ tcIn \in {[BaseEntry EXCEPT !.StatusCode = c] : c \in Codes}
               \cup {[BaseEntry EXCEPT !.ReqPath = p] : p \in Paths}
    /\ prodPc = "idle" /\ aggPc = "idle" /\ alertPc = "idle" /\ uiPc = "idle"
    /\ monPc = "harness"

\* stats := NewEmptyTrafficStats(); stats.Update(tc.LogEntry)
TestUpdate ==
    /\ scenario = "statsTest"
    /\ tcOut = None
    /\ tcOut' = Update(NewEmptyTrafficStats, tcIn)
    /\ UNCHANGED <<tcIn, cfg, scenario, cancelled, envVars, prodVars, aggVars, fanVars,
                   alertVars, statsInClosed, uiVars, monVars>>

NextStatsTest == TestUpdate

SpecStatsTest == InitStatsTest /\ [][NextStatsTest]_vars

(***************************************************************************)
(* The parser on its own, driven as TestW3CommonLogParser drives it: every *)
(* case calls Parse on one raw line and looks at the entry and the error.  *)
(* The lines are the invalid one and every line the regexp matches with a  *)
(* date that parses or not, a bytes group of "-" or of at most MaxDigits   *)
(* digits, and a few methods, paths and status groups.                     *)
(***************************************************************************)
RECURSIVE DigitsOfLen(_)
DigitsOfLen(n) ==
    IF n = 0 THEN {<<>>}
    ELSE {<<c>> \o d : c \in {"0", "1", "9"}, d \in DigitsOfLen(n - 1)}

BytesGroups == {<<"-">>} \cup UNION {DigitsOfLen(n) : n \in 1..MaxDigits}

StatusGroups == {<<"0", "0", "0">>, <<"2", "0", "0">>, <<"2", "0", "4">>, <<"9", "9", "9">>}

ParserLines ==
    TestLines \cup
    { Line(TRUE, d, m, p, s, b) :
        d \in BOOLEAN, m \in {"GET", "PUT"}, p \in {<<"/">>, <<"/", "a", "/", "b">>},
        s \in StatusGroups, b \in BytesGroups }

InitParserTest ==
    /\ InitCommon
    /\ scenario = "parserTest"
    /\ cfg = PipelineCfg
    /\ tcIn \in ParserLines
    /\ prodPc = "idle" /\ aggPc = "idle" /\ alertPc = "idle" /\ uiPc = "idle"
    /\ monPc = "harness"

\* read, err := parser.Parse(tc.rawLogEntry)
TestParse ==
    /\ scenario = "parserTest"
    /\ tcOut = None
    /\ tcOut' = Parse(tcIn)
    /\ UNCHANGED <<tcIn, cfg, scenario, cancelled, envVars, prodVars, aggVars, fanVars,
                   alertVars, statsInClosed, uiVars, monVars>>

NextParserTest == TestParse

SpecParserTest == InitParserTest /\ [][NextParserTest]_vars

(***************************************************************************)
(* The top lists of the UI on their own: formatSections, formatStatus and  *)
(* formatMethods applied to a snapshot, as UI.Run applies them to every    *)
(* snapshot it receives.  A key is a number that stands for a string.  The *)
(* hit maps hold no zero (Update only increments): every map of at most    *)
(* MaxSmallKeys keys with up to MaxHits hits, and maps of up to MaxKeys    *)
(* keys with distinct hit counts or with a tie of the two smallest.        *)
(***************************************************************************)
SmallMaps ==
    UNION { [keys -> 1..MaxHits] : keys \in SUBSET (1..MaxSmallKeys) }

BigMaps ==
    UNION { { [i \in 1..n |-> i],
              [i \in 1..n |-> n - i + 1],
              [i \in 1..n |-> IF i <= 2 THEN 1 ELSE i] } : n \in 1..MaxKeys }

HitMapsShown == SmallMaps \cup BigMaps

Widgets == {"sections", "status", "methods"}

InitTopList ==
    /\ InitCommon
    /\ scenario = "topList"
    /\ cfg = PipelineCfg
    /\ tcIn \in { [widget |-> w,
                    stats |-> [NewEmptyTrafficStats EXCEPT !.SectionHits = m,
                                 !.StatusClassHits = m, !.MethodHits = m,
                                 !.TotalReqs = MapSum(m)]] :
                    w \in Widgets, m \in HitMapsShown }
    /\ prodPc = "idle" /\ aggPc = "idle" /\ alertPc = "idle" /\ uiPc = "idle"
    /\ monPc = "harness"

\* sections.Rows = u.formatSections(s), status.Rows = u.formatStatus(s),
\* methods.Rows = u.formatMethods(s)
TestFormat ==
    /\ scenario = "topList"
    /\ tcOut = None
    /\ \E out \in (CASE tcIn.widget = "sections" -> formatSections(tcIn.stats)
                     [] tcIn.widget = "status" -> formatStatus(tcIn.stats)
                     [] tcIn.widget = "methods" -> formatMethods(tcIn.stats)) :
         tcOut' = out
    /\ UNCHANGED <<tcIn, cfg, scenario, cancelled, envVars, prodVars, aggVars, fanVars,
                   alertVars, statsInClosed, uiVars, monVars>>

NextTopList == TestFormat

SpecTopList == InitTopList /\ [][NextTopList]_vars

(***************************************************************************)
(* The pipeline under the scheduling the Go runtime gives: a goroutine     *)
(* that can take a step, or a select with a ready case, is not starved.    *)
(* Nothing is assumed of the environment: lines written to the file, the   *)
(* tail failing, ticker ticks within the bound, keys pressed.              *)
(***************************************************************************)
Fairness ==
    /\ WF_vars(MonSetupProducer) /\ WF_vars(MonSetupUI)
    /\ WF_vars(MonCancel) /\ WF_vars(MonWaited) /\ WF_vars(MonReturn)
    /\ WF_vars(ProdTailClosed) /\ WF_vars(ProdCancelled)
    /\ WF_vars(AggRecvEntry) /\ WF_vars(AggEntriesClosed)
    /\ WF_vars(AggCancelled) /\ WF_vars(AggClose)
    /\ WF_vars(FanRecv) /\ WF_vars(FanRecvClosed) /\ WF_vars(FanCancelled)
    /\ WF_vars(FanToAlerts) /\ WF_vars(FanToUI)
    /\ WF_vars(AlertCancelled) /\ WF_vars(UIRecvAlert)

FairSpec == Init /\ [][Next]_vars /\ Fairness

(***************************************************************************)
(* Claims about the AlertSupervisor, checked under SpecAlert.              *)
(***************************************************************************)
\* number of changes of ongoing along the processed snapshots, from closed
Transitions(h) ==
    Cardinality({k \in 1..Len(h) : h[k] # (IF k = 1 THEN FALSE ELSE h[k - 1])})

\* C1: hysteresis.  The detector starts closed; on every processed snapshot,
\* with the rate reqsInWindow / window taken after the window update, a closed
\* detector opens iff rate > threshold and an open one closes iff
\* rate < threshold; at rate = threshold the state stays and no alert is built.
C1_Step ==
    (Len(fed') = Len(fed) + 1) =>
        LET reqs == reqsInWindow'
        IN  /\ ~ongoing => (ongoing' <=> reqs > cfg.threshold * cfg.window)
            /\ ongoing => (~ongoing' <=> reqs < cfg.threshold * cfg.window)
            /\ reqs = cfg.threshold * cfg.window =>
                 /\ ongoing' = ongoing
                 /\ alertsLog' = alertsLog
                 /\ alertPc' = "select"

C2_AlertsMatchTransitions ==
    LET n == Transitions(ongoingHist)
    IN  /\ Len(alertsLog) = n
        /\ alertPc # "send" => Len(alertsSent) = n
        /\ alertPc = "send" => Len(alertsSent) + 1 = n
        /\ ongoing = (n % 2 = 1)
        /\ \A i \in 1..Len(alertsLog) : alertsLog[i].Open = (i % 2 = 1)
        /\ \A i \in 1..Len(alertsSent) :
              alertsSent[i] = [Open |-> (i % 2 = 1), Hits |-> alertsLog[i].Hits]

\* an open and then a recovered alert have been sent
C2_Witness == Len(alertsSent) >= 2 /\ alertPc = "select" /\ ~ongoing

\* C3: scenario S3 ends with exactly two alerts, open on the 6th snapshot at
\* 26/5 and recovered on the 15th at 25/5, and a closed alerts channel.
C3_ScenarioS3 ==
    (scenario = "S3" /\ alertPc = "done" /\ Len(fed) = 20) =>
        /\ alertsClosed
        /\ Len(alertsLog) = 2
        /\ alertsLog[1] = [Open |-> TRUE, Hits |-> <<26, 5>>, step |-> 6]
        /\ alertsLog[2] = [Open |-> FALSE, Hits |-> <<25, 5>>, step |-> 15]

\* what the code does in scenario S3: the alert stays open at 25/5 and recovers
\* on the 16th snapshot, the first 2, at 22/5
C3_CodeBehaviour ==
    (scenario = "S3" /\ alertPc = "done" /\ Len(fed) = 20) =>
        /\ alertsClosed
        /\ alertsLog = << [Open |-> TRUE, Hits |-> <<26, 5>>, step |-> 6],
                          [Open |-> FALSE, Hits |-> <<22, 5>>, step |-> 16] >>

\* C4: scenario S2 yields one open alert at 110/100 on the 10th snapshot.  In
\* general, under options with window a multiple of refresh, a constant stream
\* of r > threshold * refresh requests yields exactly one alert, open, at the
\* first step whose window sum exceeds threshold * window, and none after it.
C4_ConstantHighTraffic ==
    /\ scenario = "S2" =>
          alertsLog = IF Len(fed) < 10 THEN <<>>
                      ELSE << [Open |-> TRUE, Hits |-> <<110, 100>>, step |-> 10] >>
    /\ ( /\ Len(fed) >= 1
         /\ \A i \in 1..Len(fed) : fed[i] = fed[1]
         /\ fed[1] > cfg.threshold * cfg.refresh
         /\ cfg.window % cfg.refresh = 0 ) =>
          LET r   == fed[1]
              cap == cfg.window \div cfg.refresh
              InWindow(k) == IF k < cap THEN k * r ELSE cap * r
              Exceeds(k) == InWindow(k) > cfg.threshold * cfg.window
              k0  == CHOOSE k \in 1..cap : Exceeds(k) /\ \A j \in 1..(k - 1) : ~Exceeds(j)
          IN  alertsLog = IF Len(fed) < k0 THEN <<>>
                          ELSE << [Open |-> TRUE, Hits |-> <<InWindow(k0), cfg.window>>,
                                   step |-> k0] >>

\* scenario S2 has run to its end and its one alert was received
C4_Witness ==
    /\ scenario = "S2" /\ Len(fed) = 10 /\ alertPc = "done"
    /\ alertsSent = << [Open |-> TRUE, Hits |-> <<110, 100>>] >>

\* C5: while every snapshot fed has TotalReqs <= threshold * refresh no alert
\* is built or sent, and once the stats input is closed Run ends with the
\* alerts channel closed and nothing sent on it.
C5_NoAlertWithoutExcess ==
    (\A i \in 1..Len(fed) : fed[i] <= cfg.threshold * cfg.refresh) =>
        /\ alertsLog = <<>>
        /\ alertsSent = <<>>
        /\ alertPc # "send"
        /\ alertPc = "done" => alertsClosed

\* scenario S1: twenty snapshots of 10 requests, input closed, Run returned
C5_Witness ==
    /\ scenario = "S1" /\ Len(fed) = 20 /\ statsInClosed
    /\ alertPc = "done" /\ alertsClosed /\ alertsSent = <<>>

(***************************************************************************)
(* Claims about the TrafficAggregator and the shutdown of the pipeline,    *)
(* checked under Spec and FairSpec.                                        *)
(***************************************************************************)
\* the snapshots of all ticks so far: still being sent, or received downstream
Snapshots == tasks \cup {statsEmitted[i] : i \in 1..Len(statsEmitted)}

\* C6: every tick accounts for exactly one snapshot, in the hand of its
\* summarisation task or received downstream, also when the interval buffered
\* no entry; such a snapshot has TotalReqs = 0, TotalBytes = 0 and empty maps,
\* so k ticks without entries give k empty snapshots.  While the run is not
\* cancelled the snapshot of every tick is eventually received downstream.
C6_Accounted ==
    /\ Cardinality(tasks) + Len(statsEmitted) = ticks
    /\ {s.tick : s \in Snapshots} = 1..ticks
    /\ \A s \in Snapshots : s.n = 0 => s.stats = NewEmptyTrafficStats
    /\ received = 0 =>
         /\ Cardinality(Snapshots) = ticks
         /\ \A s \in Snapshots : s.stats = NewEmptyTrafficStats

C6_OneSnapshotPerTick ==
    /\ []C6_Accounted
    /\ \A k \in 1..MaxTicks :
          (ticks >= k) ~> (cancelled \/ \E i \in 1..Len(statsEmitted) :
                                            statsEmitted[i].tick = k)

\* every tick of the bound fired on an empty buffer and all the empty
\* snapshots were received downstream
C6_Witness ==
    /\ ticks = MaxTicks /\ received = 0 /\ ~cancelled
    /\ Len(statsEmitted) = MaxTicks
    /\ \A i \in 1..MaxTicks : statsEmitted[i].stats = NewEmptyTrafficStats

\* C7: snapshots are received downstream in tick order.
C7_TickOrder ==
    \A i, j \in 1..Len(statsEmitted) :
        i < j => statsEmitted[i].tick < statsEmitted[j].tick

\* C8: when the aggregator has returned, the TotalReqs of the snapshots
\* received downstream add up to the number of entries it received and their
\* TotalBytes to the bytes of those entries.
C8_EveryEntryCounted ==
    aggPc = "done" =>
        /\ SumSeq([i \in 1..Len(statsEmitted) |-> statsEmitted[i].stats.TotalReqs])
             = received
        /\ SumSeq([i \in 1..Len(statsEmitted) |-> statsEmitted[i].stats.TotalBytes])
             = SumSeq([i \in 1..Len(entriesSent) |-> entriesSent[i].Bytes])

\* C9: after the user quit, Monitor.Run cancels, the three stages close their
\* channels and return, Monitor.Run returns and the terminal is restored.
C9_QuitShutsDown ==
    (uiExit = "quit") ~>
        /\ prodPc = "done" /\ entriesClosed
        /\ aggPc = "done" /\ statsClosed
        /\ alertPc = "done" /\ alertsClosed
        /\ monPc = "returned" /\ ~termHeld

\* C10: when the tail closes with no cancel and no key pressed, the entries
\* and the stats channel are closed, the Presenter returns on a closed input
\* and Monitor.Run returns.
C10_TailCloseShutsDown ==
    (~tailOpen /\ monPc = "uiRun" /\ ~cancelled) ~>
        \/ uiExit = "quit"
        \/ /\ entriesClosed /\ statsClosed
           /\ uiPc = "done"
           /\ monPc = "returned"

(***************************************************************************)
(* Claims about broadcastTrafficStats, Monitor.Run and the shutdown of the *)
(* TrafficSupervisor, checked under Spec and FairSpec.                     *)
(***************************************************************************)
IsPrefix(s, u) == Len(s) <= Len(u) /\ \A i \in 1..Len(s) : s[i] = u[i]

\* the snapshots the produceStats goroutines have sent on the stats channel
SentByAggregator == [i \in 1..Len(statsEmitted) |-> statsEmitted[i].stats]

\* C11: at every moment the snapshots delivered to the AlertSupervisor and
\* those delivered to the UI are each a prefix of the snapshots the
\* TrafficSupervisor sent; nothing else is ever delivered.
C11_FanoutPrefix ==
    /\ IsPrefix(toAlerts, SentByAggregator)
    /\ IsPrefix(toUI, SentByAggregator)

\* a delivery of broadcastTrafficStats to one of its two sinks
FanDelivers ==
    \/ fanPc = "send1" /\ fanPc' = "send2"
    \/ fanPc = "send2" /\ fanPc' = "select"

\* C12: once the context is cancelled broadcastTrafficStats delivers to neither
\* sink any more and its goroutine eventually returns.
C12_CancelEndsFanout ==
    /\ [][cancelled => ~FanDelivers]_vars
    /\ cancelled ~> (fanPc = "done")

StagesReturned == prodPc = "done" /\ aggPc = "done" /\ alertPc = "done"

\* C13: in a run that launched the stages, the terminal and the tail are
\* released only after cancel() and the return of Producer, TrafficSupervisor
\* and AlertSupervisor, the terminal first; each is acquired once, in its
\* Setup, so released once, and both are released when Run has returned.
C13_Step ==
    /\ (termHeld /\ ~termHeld') => (cancelled /\ StagesReturned /\ tailHeld /\ tailHeld')
    /\ (tailHeld /\ ~tailHeld' /\ uiPc # "idle") =>
           (cancelled /\ StagesReturned /\ ~termHeld)
    /\ (~termHeld /\ termHeld') => monPc = "setupUI"
    /\ (~tailHeld /\ tailHeld') => monPc = "setupProducer"

C13_ReleaseAfterStages ==
    /\ [](monPc = "returned" => ~termHeld /\ ~tailHeld)
    /\ [][C13_Step]_vars

\* Run returned after a quit: stages back, terminal and tail released
C13_Witness ==
    /\ monPc = "returned" /\ uiExit = "quit" /\ cancelled /\ StagesReturned
    /\ ~termHeld /\ ~tailHeld

\* C14: once the context is cancelled, and once the entries channel is closed,
\* no further snapshot is received from the stats channel.
C14_NoSnapshotAfterCancel ==
    /\ [][cancelled => statsEmitted' = statsEmitted]_vars
    /\ [][entriesClosed => statsEmitted' = statsEmitted]_vars

NothingLaunched ==
    /\ prodPc = "idle" /\ aggPc = "idle" /\ fanPc = "idle" /\ alertPc = "idle"
    /\ uiPc = "idle" /\ ~cancelled
    /\ ~entriesClosed /\ ~statsClosed /\ ~alertsClosed

\* C19: when the file watcher's Setup fails Run returns its error with no tail
\* held, the terminal never grabbed and nothing launched, and the process
\* exits with 1; it exits with 0 only after a run that returned nil.
C19_ProducerSetupFailure ==
    /\ runErr = "setup file watcher" =>
          /\ monPc = "failed" /\ exitCode = 1
          /\ ~tailHeld /\ ~termHeld /\ NothingLaunched
    /\ exitCode = 0 => (monPc = "returned" /\ runErr = "none")
    /\ exitCode \in {-1, 0, 1}

C19_Witness == runErr = "setup file watcher" /\ exitCode = 1 /\ monPc = "failed"

\* C20: when the UI's Setup fails the tail, opened before, is released in the
\* step that returns the error, nothing has been launched and the terminal is
\* neither held nor cleaned up.
C20_Step ==
    (runErr = "none" /\ runErr' = "setup ui") =>
        (tailHeld /\ ~tailHeld' /\ ~termHeld /\ ~termHeld')

C20_UISetupFailure ==
    /\ [](runErr = "setup ui" =>
            /\ monPc = "failed" /\ exitCode = 1
            /\ ~tailHeld /\ ~termHeld /\ NothingLaunched)
    /\ [][C20_Step]_vars

C20_Witness == runErr = "setup ui" /\ monPc = "failed" /\ ~tailHeld

(***************************************************************************)
(* Claims about the Producer, checked under SpecProducer.                  *)
(***************************************************************************)
\* C15: once the context is cancelled the Producer takes no further line from
\* the tail, even when lines are available.
C15_NoLineAfterCancel == [][cancelled => linesRead' = linesRead]_vars

\* a line the regexp matches and whose date parses, and the entry it stands for
WellFormed(line) == line.matches /\ line.dateOk

EntryOf(line) ==
    [ReqMethod |-> line.method, ReqPath |-> line.path,
     StatusCode |-> AtoiDigits(line.status),
     Bytes |-> IF line.bytes = <<"-">> THEN 0 ELSE AtoiDigits(line.bytes)]

ExpectedEntries ==
    LET good == SelectSeq(linesLog, WellFormed)
    IN  [i \in 1..Len(good) |-> EntryOf(good[i])]

\* C16: the entries sent, followed by the entry the Producer is about to send,
\* are the entries of the well-formed lines read, in the order read; a line
\* that fails to parse yields no entry, leaves the channel open and the
\* Producer in its loop.
C16_Invariant ==
    /\ prodPc = "send" => ExpectedEntries = Append(entriesSent, prodEntry)
    /\ prodPc # "send" => ExpectedEntries = entriesSent
    /\ Len(linesLog) = linesRead
    /\ entriesClosed => (~tailOpen \/ cancelled)

C16_Step ==
    (Len(linesLog') = Len(linesLog) + 1 /\ ~WellFormed(linesLog'[Len(linesLog')])) =>
        (prodPc' = "select" /\ entriesClosed' = entriesClosed /\ entriesSent' = entriesSent)

C16_MalformedLinesSkipped == []C16_Invariant /\ [][C16_Step]_vars

\* a line that does not parse was read and skipped, and the entry of the
\* well-formed line after it was received
C16_Witness ==
    /\ Len(linesLog) = 2
    /\ ~WellFormed(linesLog[1]) /\ WellFormed(linesLog[2])
    /\ entriesSent = <<EntryOf(linesLog[2])>>
    /\ ~entriesClosed

(***************************************************************************)
(* Claims about TrafficStats, checked under SpecTraffic.                   *)
(***************************************************************************)
\* the maps of a TrafficStats
HitMaps(s) == <<s.SectionHits, s.MethodHits, s.StatusClassHits>>

\* C17: a TrafficStats built from the empty one by one Update per entry has
\* TotalReqs = the number of entries = the sum of each of its three maps,
\* Bytes = the sum of the entries' bytes, which is >= 0, and no map holds a
\* zero.
C17_StatsConsistent ==
    \A s \in Snapshots :
        /\ s.stats.TotalReqs = Len(s.entries)
        /\ \A j \in 1..3 :
              LET m == HitMaps(s.stats)[j]
              IN  /\ MapSum(m) = s.stats.TotalReqs
                  /\ \A k \in DOMAIN m : m[k] > 0
        /\ s.stats.Bytes = SumSeq([i \in 1..Len(s.entries) |-> s.entries[i].Bytes])
        /\ s.stats.Bytes >= 0

\* a snapshot of MaxEntries entries that share a key in one map and differ in
\* another
C17_Witness ==
    \E s \in Snapshots :
        /\ s.stats.TotalReqs = MaxEntries
        /\ \E k \in DOMAIN s.stats.MethodHits : s.stats.MethodHits[k] >= 2
        /\ Cardinality(DOMAIN s.stats.StatusClassHits) >= 2
        /\ s.stats.Bytes > 0

(***************************************************************************)
(* Claims about UI.Run, checked under SpecUI.                              *)
(***************************************************************************)
\* C18: UI.Run returns only on a quit key, a cancelled context, a closed stats
\* input or a closed alerts input, and it does return once the context is
\* cancelled or an input is closed; another key, a snapshot or an alert
\* leaves it running.  After it has returned Monitor.Run cancels the context.
C18_Step ==
    /\ (uiPc = "run" /\ uiPc' = "done") =>
          \/ uiExit' = "quit"
          \/ uiExit' = "cancelled" /\ cancelled
          \/ uiExit' = "statsClosed" /\ statsClosed
          \/ uiExit' = "alertsClosed" /\ alertsClosed
    /\ (toUI' # toUI \/ alertsSent' # alertsSent) => (uiPc = "run" /\ uiPc' = "run")
    /\ (monPc = "uiRun" /\ monPc' # "uiRun") => (uiPc = "done" /\ cancelled')

C18_UIRunReturns ==
    /\ [][C18_Step]_vars
    /\ (cancelled \/ statsClosed \/ alertsClosed) ~> (uiPc = "done")
    /\ (uiPc = "done") ~> (cancelled /\ monPc = "wgWait")

\* UI.Run showed a snapshot and an alert, then returned on its closed stats
\* input, and Monitor.Run has cancelled the context
C18_Witness ==
    /\ uiExit = "statsClosed" /\ uiPc = "done"
    /\ Len(toUI) >= 1 /\ Len(alertsSent) >= 1
    /\ cancelled /\ monPc = "wgWait"

(***************************************************************************)
(* Claims about the configuration, checked under SpecConfig.               *)
(***************************************************************************)
\* refresh, threshold and window are positive and window is a multiple of
\* refresh
ValidConfig ==
    /\ cfg.refresh > 0 /\ cfg.threshold > 0 /\ cfg.window > 0
    /\ cfg.window % cfg.refresh = 0

\* C21: with options that are not all positive, or a window that is no
\* multiple of the refresh interval, the program fails before the pipeline
\* starts: Monitor.Run launches no stage and the exit code is not 0; an
\* AlertSupervisor in use has capacity >= 1 and capacity * refresh = window.
C21_ConfigValidated ==
    /\ ~ValidConfig =>
          /\ monPc # "uiRun"
          /\ NothingLaunched
          /\ exitCode # 0
    /\ monPc \notin {"main", "failed", "panicked"} =>
          /\ capacity >= 1
          /\ capacity * cfg.refresh = cfg.window

(***************************************************************************)
(* Claims about the AlertSupervisor, checked under FairSpecAlert.          *)
(***************************************************************************)
\* C22: when the context is cancelled and no snapshot has arrived, Run has
\* built and sent no alert, and (unless a snapshot arrives after all) it
\* leaves its loop, closes the alerts channel and returns: the first receive
\* of a consumer finds the channel closed.
C22_CancelBeforeSnapshot ==
    /\ []((cancelled /\ fed = <<>>) =>
            /\ alertsLog = <<>> /\ alertsSent = <<>> /\ alertPc \in {"select", "done"}
            /\ alertPc = "done" => alertsClosed)
    /\ (cancelled /\ fed = <<>>) ~>
            \/ alertPc = "done" /\ alertsClosed /\ alertsSent = <<>>
            \/ fed # <<>>

\* Run returned on the cancelled context with its stats input open and unused
C22_Witness ==
    /\ cancelled /\ fed = <<>> /\ ~statsInClosed
    /\ alertPc = "done" /\ alertsClosed /\ alertsSent = <<>>

(***************************************************************************)
(* Claims about the derived fields of TrafficStats, checked under          *)
(* SpecStatsTest.                                                          *)
(***************************************************************************)
\* the one key of a hit map after a single Update
OnlyKey(m) == CHOOSE k \in DOMAIN m : TRUE

\* C23: the status class of every integer code is one of 1xx .. 5xx: 1xx iff
\* code < 200 (0 and negative codes too), 2xx iff 200..299, 3xx iff 300..399,
\* 4xx iff 400..499, 5xx iff code >= 500 (codes from 600 on too).
C23_StatusClass ==
    tcOut # None =>
        LET c == tcIn.StatusCode
            k == OnlyKey(tcOut.StatusClassHits)
        IN  /\ DOMAIN tcOut.StatusClassHits = {k}
            /\ k \in {"1xx", "2xx", "3xx", "4xx", "5xx"}
            /\ (k = "1xx") <=> (c < 200)
            /\ (k = "2xx") <=> (c >= 200 /\ c <= 299)
            /\ (k = "3xx") <=> (c >= 300 /\ c <= 399)
            /\ (k = "4xx") <=> (c >= 400 /\ c <= 499)
            /\ (k = "5xx") <=> (c >= 500)

\* a code from 600 on was classified
C23_Witness ==
    /\ tcOut # None /\ tcIn.StatusCode >= 600
    /\ DOMAIN tcOut.StatusClassHits = {"5xx"}

\* index of the first "/" of q, or Len(q) + 1
FirstSlash(q) ==
    IF \E i \in 1..Len(q) : q[i] = "/"
    THEN CHOOSE i \in 1..Len(q) : q[i] = "/" /\ \A j \in 1..(i - 1) : q[j] # "/"
    ELSE Len(q) + 1

\* C24: the section of every path starts with "/" and holds no other "/"; it
\* is "/" followed by the characters of the path, less one leading "/", up to
\* the next "/".  So "" and "/" give "/", "/foo/bar" gives "/foo", "abc" gives
\* "/abc" and "a/b/c" gives "/a".
C24_Section ==
    tcOut # None =>
        LET p == tcIn.ReqPath
            s == OnlyKey(tcOut.SectionHits)
            q == IF Len(p) >= 1 /\ p[1] = "/" THEN Tail(p) ELSE p
        IN  /\ DOMAIN tcOut.SectionHits = {s}
            /\ Len(s) >= 1 /\ s[1] = "/"
            /\ \A i \in 2..Len(s) : s[i] # "/"
            /\ s = <<"/">> \o SubSeq(q, 1, FirstSlash(q) - 1)
            /\ p = <<>> => s = <<"/">>
            /\ p = <<"/">> => s = <<"/">>
            /\ p = <<"/", "f", "o", "o", "/", "b", "a", "r">> => s = <<"/", "f", "o", "o">>
            /\ p = <<"a", "b", "c">> => s = <<"/", "a", "b", "c">>
            /\ p = <<"a", "/", "b", "/", "c">> => s = <<"/", "a">>

\* a path without a leading slash and with a second segment was sectioned
C24_Witness ==
    /\ tcOut # None /\ tcIn.ReqPath = <<"a", "/", "b", "/", "c">>
    /\ DOMAIN tcOut.SectionHits = {<<"/", "a">>}

(***************************************************************************)
(* Claims about the parser, checked under SpecParserTest.                  *)
(***************************************************************************)
\* C25: Parse succeeds on a well-formed line, with the fields of the line and
\* with bytes = 0 when the bytes group is "-"; on a line the format does not
\* match, and on one whose date does not parse, it returns an error and the
\* zero-valued LogEntry.
C25_ParseOutcomes ==
    tcOut # None =>
        /\ WellFormed(tcIn) =>
              /\ ~tcOut.err
              /\ tcOut.entry = EntryOf(tcIn)
              /\ tcIn.bytes = <<"-">> => tcOut.entry.Bytes = 0
        /\ ~WellFormed(tcIn) =>
              /\ tcOut.err
              /\ tcOut.entry = [ReqMethod |-> "", ReqPath |-> <<>>, StatusCode |-> 0,
                                Bytes |-> 0]

\* a well-formed line with "-" for the bytes was parsed
C25_Witness ==
    /\ tcOut # None /\ WellFormed(tcIn) /\ tcIn.bytes = <<"-">>
    /\ ~tcOut.err /\ tcOut.entry.Bytes = 0 /\ tcOut.entry.StatusCode = 204

(***************************************************************************)
(* Further claims about the AlertSupervisor, checked under SpecAlert.      *)
(***************************************************************************)
\* C26: the alerts sent never outnumber the snapshots processed (none without
\* a snapshot); an alert is built only in the step that processes a snapshot,
\* at most one per snapshot, and it is sent once.
C26_Step ==
    /\ Len(alertsLog') <= Len(alertsLog) + 1
    /\ alertsLog' # alertsLog => Len(fed') = Len(fed) + 1
    /\ alertsSent' # alertsSent =>
          /\ alertPc = "send"
          /\ alertsSent' = Append(alertsSent, alertInHand)

C26_AtMostOneAlertPerSnapshot ==
    /\ [](Len(alertsSent) <= Len(alertsLog) /\ Len(alertsLog) <= Len(fed))
    /\ [][C26_Step]_vars

\* every snapshot processed so far gave an alert, and all were sent
C26_Witness == Len(fed) >= 2 /\ Len(alertsSent) = Len(fed)

\* C28: with N = window / refresh, after k processed snapshots the buffer
\* holds the most recent min(k, N) of them, newest first (the oldest was
\* evicted whenever the buffer outgrew N), and reqsInWindow is the sum of
\* TotalReqs of the buffered snapshots.
C28_WindowInvariants ==
    (cfg.window % cfg.refresh = 0 /\ alertPc # "idle") =>
        LET N == cfg.window \div cfg.refresh
            k == Len(fed)
            m == IF k < N THEN k ELSE N
        IN  /\ Len(statsBuffer) <= N
            /\ Len(statsBuffer) = m
            /\ \A i \in 1..m : statsBuffer[i] = StatsOfReqs(fed[k - i + 1])
            /\ reqsInWindow = SumSeq([i \in 1..Len(statsBuffer) |-> statsBuffer[i].TotalReqs])

\* a window of two snapshots after two evictions of differing snapshots
C28_Witness ==
    /\ cfg.window = 2 /\ cfg.refresh = 1 /\ Len(fed) = 4 /\ Len(statsBuffer) = 2
    /\ fed[1] # fed[3] /\ fed[2] # fed[4] /\ reqsInWindow = fed[3] + fed[4]

(***************************************************************************)
(* Claims about the top lists of the UI, checked under SpecTopList.        *)
(***************************************************************************)
\* C27: the list shown for a hit map, with the limit K = 20 for sections and
\* 10 for status classes and methods, has min(K, number of keys) entries of
\* the map in non-increasing order of hits; no omitted key has more hits than
\* a shown one; no shown entry has zero hits.
C27_Ranking ==
    tcOut # None =>
        LET K == IF tcIn.widget = "sections" THEN 20 ELSE 10
            m == CASE tcIn.widget = "sections" -> tcIn.stats.SectionHits
                   [] tcIn.widget = "status" -> tcIn.stats.StatusClassHits
                   [] tcIn.widget = "methods" -> tcIn.stats.MethodHits
            n == Cardinality(DOMAIN m)
            rows == tcOut.rows
            shown == {rows[i].key : i \in 1..Len(rows)}
        IN  /\ Len(rows) = (IF n < K THEN n ELSE K)
            /\ Cardinality(shown) = Len(rows)
            /\ \A i \in 1..Len(rows) :
                  /\ rows[i].key \in DOMAIN m
                  /\ rows[i].val = m[rows[i].key]
                  /\ rows[i].val # 0
            /\ \A i, j \in 1..Len(rows) : i < j => rows[i].val >= rows[j].val
            /\ \A k \in DOMAIN m \ shown : \A i \in 1..Len(rows) : m[k] <= rows[i].val

\* a map of 21 sections whose two smallest counts tie: 20 are shown and one
\* of the two tied keys is left out
C27_Witness ==
    /\ tcOut # None /\ tcIn.widget = "sections"
    /\ Cardinality(DOMAIN tcIn.stats.SectionHits) = 21
    /\ tcIn.stats.SectionHits[1] = tcIn.stats.SectionHits[2]
    /\ Len(tcOut.rows) = 20 /\ tcOut.rows[20].key = 1

(***************************************************************************)
(* Claims about the intervals of the TrafficSupervisor, checked under      *)
(* SpecTraffic.                                                            *)
(***************************************************************************)
Reverse(s) == [i \in 1..Len(s) |-> s[Len(s) - i + 1]]

\* the entries of the interval detached at tick k, in arrival order
IntervalOf(k) == Reverse((CHOOSE s \in Snapshots : s.tick = k).entries)

RECURSIVE IntervalsUpTo(_)
IntervalsUpTo(k) == IF k = 0 THEN <<>> ELSE IntervalsUpTo(k - 1) \o IntervalOf(k)

\* C29: the intervals of the ticks so far, in tick order, followed by the
\* current buffer are exactly the entries received, in arrival order, and a
\* snapshot counts the entries of its interval: an entry received between
\* tick k-1 and tick k is counted at tick k and nowhere else.  A tick detaches
\* the whole buffer and leaves an empty one; a received entry goes to the
\* current buffer and changes no detached interval, also while the task of an
\* earlier tick has not yet sent.
C29_Invariant ==
    /\ \A k \in 1..ticks : Cardinality({s \in Snapshots : s.tick = k}) = 1
    /\ entriesSent = IntervalsUpTo(ticks) \o Reverse(entriesBuffer)
    /\ \A s \in Snapshots : s.stats = produceStats(s.entries)
                            /\ s.stats.TotalReqs = Len(s.entries)

C29_Step ==
    /\ \A s \in Snapshots : s \in Snapshots'
    /\ ticks' # ticks =>
          /\ entriesBuffer' = <<>>
          /\ \E s \in tasks' \ tasks : s.tick = ticks' /\ s.entries = entriesBuffer
    /\ received' # received =>
          /\ tasks' = tasks
          /\ Len(entriesBuffer') = Len(entriesBuffer) + 1
          /\ Tail(entriesBuffer') = entriesBuffer

C29_IntervalsDoNotLeak == []C29_Invariant /\ [][C29_Step]_vars

\* an entry arrived while the task of tick 1 had not sent its snapshot, and
\* tick 2 detached it as its own interval
C29_Witness ==
    \E s1, s2 \in tasks :
        /\ s1.tick = 1 /\ s2.tick = 2
        /\ Len(s1.entries) = 1 /\ Len(s2.entries) = 1 /\ s1.entries # s2.entries
        /\ entriesBuffer = <<>>

\* C30: the stats channel is closed only after the context was cancelled or
\* the entries channel closed, once Run has left its loop and every
\* produceStats goroutine started by a tick has completed its send; after the
\* close no snapshot is sent, no goroutine is started, and the channel is not
\* closed again.
C30_Step ==
    /\ (~statsClosed /\ statsClosed') =>
          /\ tasks = {} /\ aggPc = "wait" /\ aggPc' = "done"
          /\ cancelled \/ entriesClosed
          /\ Len(statsEmitted) = ticks
    /\ statsClosed =>
          /\ statsClosed'
          /\ statsEmitted' = statsEmitted /\ tasks' = tasks /\ ticks' = ticks
          /\ aggPc' = "done"

C30_CloseAfterTasks ==
    /\ [](statsClosed => (tasks = {} /\ aggPc = "done"))
    /\ [][C30_Step]_vars

\* Run was cancelled with its entries channel open, and closed stats after the
\* snapshots of both ticks had been received
C30_Witness ==
    /\ statsClosed /\ cancelled /\ ~entriesClosed
    /\ ticks = 2 /\ Len(statsEmitted) = 2 /\ received >= 1

\* C31: while the context is not cancelled and the entries channel is open,
\* Run is at its select, where it takes the next entry or the next tick
\* (within the bounds of the model), however many produceStats goroutines are
\* still waiting to send; a send on the stats channel is a step of such a
\* goroutine and never of the loop of Run.
C31_Step ==
    statsEmitted' # statsEmitted =>
        /\ aggPc' = aggPc /\ entriesBuffer' = entriesBuffer /\ ticks' = ticks
        /\ \E s \in tasks : tasks' = tasks \ {s} /\ statsEmitted' = Append(statsEmitted, s)

C31_IngestNotBlocked ==
    /\ []((~cancelled /\ ~entriesClosed /\ aggPc # "idle") =>
            /\ aggPc = "select"
            /\ received < MaxEntries => ENABLED HarnessSendEntry
            /\ ticks < MaxTicks => ENABLED AggTick)
    /\ [][C31_Step]_vars

\* an entry was received while the snapshots of all ticks so far were still
\* waiting for a receiver
C31_Witness ==
    /\ ~cancelled /\ ~entriesClosed /\ aggPc = "select"
    /\ ticks = MaxTicks /\ Cardinality(tasks) = MaxTicks /\ statsEmitted = <<>>
    /\ Len(entriesBuffer) >= 1

(***************************************************************************)
(* Claims about broadcastTrafficStats and the two sinks, checked under     *)
(* Spec and FairSpec.                                                      *)
(***************************************************************************)
\* a history of the pipeline that has stopped growing
HistoryFull(h) == Len(h) >= MaxTicks + MaxZeros

\* C32: broadcastTrafficStats takes the next snapshot from its input only
\* after it has delivered the last one to the AlertSupervisor and then to the
\* UI.  So the AlertSupervisor has received as many snapshots as the UI or
\* one more (while the UI's delivery is pending), and what the UI received
\* is a prefix of what the AlertSupervisor received.
C32_Step ==
    /\ fanPc' # fanPc =>
          <<fanPc, fanPc'>> \in {<<"idle", "select">>, <<"select", "send1">>,
                                 <<"send1", "send2">>, <<"send2", "select">>,
                                 <<"select", "done">>}
    /\ (fanPc = "send1" /\ fanPc' = "send2") =>
          /\ toAlerts' = (IF HistoryFull(toAlerts) THEN toAlerts
                          ELSE Append(toAlerts, fanMsg))
          /\ toUI' = toUI /\ fanMsg' = fanMsg
    /\ (fanPc = "send2" /\ fanPc' = "select") =>
          /\ toUI' = (IF HistoryFull(toUI) THEN toUI ELSE Append(toUI, fanMsg))
          /\ toAlerts' = toAlerts
    /\ ~(fanPc = "send1" /\ fanPc' = "send2") => toAlerts' = toAlerts
    /\ ~(fanPc = "send2" /\ fanPc' = "select") => toUI' = toUI

C32_FanoutLockstep ==
    /\ [](/\ IsPrefix(toUI, toAlerts)
          /\ Len(toAlerts) \in {Len(toUI), Len(toUI) + 1}
          /\ fanPc = "send2" => (Len(toAlerts) = Len(toUI) + 1 \/ HistoryFull(toUI))
          /\ fanPc \in {"idle", "select", "send1", "done"} => Len(toAlerts) = Len(toUI))
    /\ [][C32_Step]_vars

\* the third snapshot is with the AlertSupervisor and on its way to the UI,
\* which holds the first two
C32_Witness ==
    /\ fanPc = "send2" /\ Len(toUI) = 2 /\ Len(toAlerts) = 3
    /\ toAlerts[3] = fanMsg /\ toAlerts[1] # toAlerts[2]

\* C33: when a snapshot makes the AlertSupervisor build an alert, the UI
\* receives that alert before broadcastTrafficStats delivers the next snapshot
\* to the AlertSupervisor (and so before it delivers it to the UI, which comes
\* after); the alerts reach the UI one by one in the order they were built.
C33_Step ==
    /\ (fanPc = "send1" /\ fanPc' = "send2") =>
          /\ alertPc = "select" /\ alertInHand = None
          /\ Len(alertsSent) = Len(alertsLog)
    /\ (fanPc = "send2" /\ fanPc' = "select") =>
          /\ Len(alertsSent) >= Len(alertsLog) - 1
          /\ alertPc = "send" =>
                alertInHand.Hits = alertsLog[Len(alertsLog)].Hits
    /\ alertsSent' # alertsSent =>
          /\ uiPc = "run"
          /\ alertsSent' = Append(alertsSent, alertInHand)
          /\ shownAlert' = alertInHand
          /\ Len(alertsSent') = Len(alertsLog)

C33_AlertBeforeNextSnapshot ==
    /\ [](/\ Len(alertsSent) <= Len(alertsLog)
          /\ \A i \in 1..Len(alertsSent) :
                alertsSent[i] = [Open |-> alertsLog[i].Open, Hits |-> alertsLog[i].Hits])
    /\ [][C33_Step]_vars

\* the UI has shown the open alert; the next snapshot made the AlertSupervisor
\* build the recovered one, which it is sending while that snapshot is on its
\* way to the UI
C33_Witness ==
    /\ fanPc = "send2" /\ alertPc = "send" /\ uiPc = "run"
    /\ Len(alertsLog) = 2 /\ Len(alertsSent) = 1
    /\ shownAlert = alertsSent[1] /\ shownAlert.Open

\* no cancel has fired and no channel of the pipeline has been closed
Steady ==
    /\ ~cancelled /\ tailOpen
    /\ ~entriesClosed /\ ~statsClosed /\ ~alertsClosed

\* C34: in the steady state the stages downstream of the TrafficSupervisor do
\* not deadlock: whenever broadcastTrafficStats holds a snapshot or the
\* AlertSupervisor holds an alert, a delivery (or, after the user quit, the
\* cancel) is enabled; and with no enabled step starved every snapshot taken
\* by broadcastTrafficStats is delivered to both sinks and every alert built
\* is received by the UI, unless the steady state ends first.
C34_NoSteadyDeadlock ==
    /\ []((Steady /\ (fanPc \in {"send1", "send2"} \/ alertPc = "send")) =>
            ENABLED (FanToAlerts \/ FanToUI \/ UIRecvAlert \/ MonCancel))
    /\ (Steady /\ fanPc = "send1") ~> (fanPc = "select" \/ ~Steady)
    /\ (Steady /\ alertPc = "send") ~> (alertPc = "select" \/ ~Steady)

\* in the steady state two snapshots went to both sinks and the UI received
\* the open and the recovered alert they led to
C34_Witness ==
    /\ Steady /\ uiPc = "run" /\ fanPc = "select" /\ alertPc = "select"
    /\ Len(toUI) = 2 /\ Len(toAlerts) = 2 /\ Len(alertsSent) = 2

\* C35: the entries channel is closed by the Producer alone, from its
\* select and so after its last send, and the alerts channel by the
\* AlertSupervisor alone in the same way; once a channel is closed nothing is
\* sent on it and it is not closed again, whenever the cancel or the close of
\* the upstream comes.
C35_Step ==
    /\ (~entriesClosed /\ entriesClosed') => (prodPc = "select" /\ prodPc' = "done")
    /\ entriesClosed =>
          /\ entriesClosed' /\ prodPc = "done" /\ prodPc' = "done"
          /\ entriesSent' = entriesSent /\ received' = received
    /\ (~alertsClosed /\ alertsClosed') => (alertPc = "select" /\ alertPc' = "done")
    /\ alertsClosed =>
          /\ alertsClosed' /\ alertPc = "done" /\ alertPc' = "done"
          /\ alertsSent' = alertsSent /\ alertsLog' = alertsLog

C35_NoChannelMisuse ==
    /\ [](/\ entriesClosed => (prodPc = "done" /\ prodEntry = None)
          /\ alertsClosed => (alertPc = "done" /\ alertInHand = None))
    /\ [][C35_Step]_vars

\* both channels were used and then closed
C35_Witness ==
    /\ entriesClosed /\ alertsClosed /\ cancelled
    /\ Len(entriesSent) >= 1 /\ Len(alertsSent) >= 1

(***************************************************************************)
(* Claims about the alerts of the AlertSupervisor, checked under SpecAlert.*)
(***************************************************************************)
\* requests of the last min(k, n) of the first k snapshots processed
LastReqs(k, n) ==
    LET from == IF k - n + 1 < 1 THEN 1 ELSE k - n + 1
    IN  SumSeq([i \in 1..(k - from + 1) |-> fed[from + i - 1]])

AlertsIn(k, n) == {i \in 1..Len(alertsLog) : alertsLog[i].step \in (k + 1)..(k + n)}

\* the snapshots k+1 .. k+n were empty
EmptyRun(k, n) == \A j \in (k + 1)..(k + n) : fed[j] = 0

\* C37: with threshold >= 1 and N >= 1, N empty snapshots in a row after a
\* step that left the alert open end with reqsInWindow = 0 and with exactly
\* one alert among them, a recovered one; empty snapshots after a step that
\* left the alert closed (or from the start) produce no alert.
C37_SilenceCloses ==
    LET N == cfg.window \div cfg.refresh
    IN  (cfg.threshold >= 1 /\ N >= 1) =>
          /\ \A k \in 1..(Len(fed) - N) :
                (ongoingHist[k] /\ EmptyRun(k, N)) =>
                   /\ Cardinality(AlertsIn(k, N)) = 1
                   /\ \A i \in AlertsIn(k, N) : ~alertsLog[i].Open
                   /\ ~ongoingHist[k + N]
                   /\ Len(fed) = k + N => reqsInWindow = 0
          /\ \A k \in 0..Len(fed) : \A n \in 0..(Len(fed) - k) :
                ((k = 0 \/ ~ongoingHist[k]) /\ EmptyRun(k, n)) => AlertsIn(k, n) = {}

\* a window of two snapshots: the alert opened by the first snapshot recovers
\* at the second empty one, and the empty one after that produces nothing
C37_Witness ==
    /\ cfg.window = 2 /\ cfg.refresh = 1 /\ cfg.threshold = 1
    /\ fed = <<3, 0, 0, 0>>
    /\ reqsInWindow = 0 /\ ~ongoing
    /\ Len(alertsSent) = 2 /\ ~alertsSent[2].Open /\ alertsLog[2].step = 3

(***************************************************************************)
(* Claim about the entries of the parser, checked under SpecParserTest.    *)
(***************************************************************************)
\* C38: every entry Parse returns without an error, which is every entry the
\* Producer emits, has a status in 100..999 and bytes >= 0.
C38_StatusAndBytesInRange ==
    (tcOut # None /\ ~tcOut.err) =>
        /\ tcOut.entry.StatusCode \in 100..999
        /\ tcOut.entry.Bytes >= 0

(***************************************************************************)
(* Claim about the display of the UI, checked under SpecUI, where toUI and *)
(* alertsSent are the snapshots and the alerts UI.Run has received.        *)
(***************************************************************************)
Last(h) == h[Len(h)]

\* what the display holds, in every state
C39_Shown ==
    /\ shownStats = (IF toUI = <<>> THEN None ELSE Last(toUI))
    /\ toUI # <<>> =>
          /\ formatTraffic(shownStats) = formatTraffic(Last(toUI))
          /\ formatSections(shownStats) = formatSections(Last(toUI))
          /\ formatStatus(shownStats) = formatStatus(Last(toUI))
          /\ formatMethods(shownStats) = formatMethods(Last(toUI))
    /\ alertsSent = <<>> => (shownAlert = None /\ alertsRows = buildAlertsWidget)
    /\ alertsSent # <<>> =>
          (shownAlert = Last(alertsSent) /\ alertsRows = formatAlerts(Last(alertsSent)))

\* what a step changes of it
C39_Step ==
    /\ Len(toUI') > Len(toUI) =>
          (shownStats' = Last(toUI') /\ shownAlert' = shownAlert)
    /\ Len(alertsSent') > Len(alertsSent) =>
          (shownAlert' = Last(alertsSent') /\ shownStats' = shownStats)
    /\ (Len(toUI') = Len(toUI) /\ Len(alertsSent') = Len(alertsSent)) =>
          UNCHANGED <<shownStats, shownAlert>>

\* C39: a snapshot received replaces the displayed statistics and leaves the
\* displayed alert; an alert received replaces the displayed alert and leaves
\* the displayed statistics; the display always shows the last snapshot and
\* the last alert received, and "no alerts triggered" before the first alert.
C39_DisplayFrame == []C39_Shown /\ [][C39_Step]_vars

\* an alert was received and then a snapshot: both are on display
C39_Witness ==
    /\ scenario = "ui"
    /\ Len(alertsSent) = 1 /\ Len(toUI) = 1
    /\ shownAlert = alertsSent[1] /\ shownAlert.Open
    /\ shownStats = toUI[1] /\ shownStats.TotalReqs = MaxReq
    /\ alertsRows # buildAlertsWidget

(***************************************************************************)
(* Claim about a window shorter than the refresh interval, checked under   *)
(* SpecAlert, whose configurations include window 1 with refresh 2.        *)
(***************************************************************************)
\* C40: with window < refresh the capacity is 0: the snapshot pushed is the
\* one evicted in the same step, reqsInWindow is 0 after every step, and with
\* a threshold >= 0 no alert is ever built or sent, whatever the traffic.
C40_DegenerateCapacity ==
    (cfg.window < cfg.refresh /\ cfg.threshold >= 0) =>
        /\ capacity = 0
        /\ statsBuffer = <<>>
        /\ reqsInWindow = 0
        /\ ~ongoing /\ \A i \in 1..Len(ongoingHist) : ~ongoingHist[i]
        /\ alertInHand = None
        /\ alertsLog = <<>> /\ alertsSent = <<>>

\* three snapshots of MaxReq requests against a threshold of 0, and no alert
C40_Witness ==
    /\ cfg.window < cfg.refresh /\ cfg.threshold = 0
    /\ fed = <<MaxReq, MaxReq, MaxReq>>
    /\ alertsLog = <<>> /\ reqsInWindow = 0

====
